---- MODULE Spec2Model ----
(***************************************************************************)
(* Mini-ADAS pipeline of pullpiri_persistency/vstechdemo/demo25:           *)
(* Camera, Radar -> NeuralNet -> CarModeCalculator -> CarDataPublisher and *)
(* the three mode publishers (activities/components.rs).                   *)
(*                                                                         *)
(* Units: distances are tenths of a metre (4.0 m = 40), speeds, angles and *)
(* brake forces are thousandths (the SCALE_FACTOR of random_walk_float),   *)
(* instants and durations are whole seconds.                               *)
(* Option<T> and the single-slot topics are sequences of length 0 or 1.    *)
(***************************************************************************)
EXTENDS Integers, Sequences, FiniteSets, TLC

VARIABLES
    now,                      \* the monotonic clock read by Instant::now()
    image_ch,                 \* topic camera-front   (CameraImage)
    scan_ch,                  \* topic radar-front    (RadarScan)
    scene_ch,                 \* topic inferred-scene (Scene)
    car_data_ch,              \* topic car-data       (CarData)
    current_mode,             \* CarModeCalculator fields
    previous_published_mode,
    last_mode_change_time,
    current_speed,
    target_speed,
    steering_angle,
    brake_force,
    fwd_writer,               \* CarDataPublisher.writer is Some
    fwd_participant,          \* CarDataPublisher.participant is Some
    last_published_mode,      \* CarDataPublisher.last_published_mode
    pub_writer,               \* writer is Some, per mode publisher
    pub_participant,          \* participant is Some, per mode publisher
    discovery_counter,        \* discovery_counter, per mode publisher
    dds_car_data,             \* writer.write calls on DDS topic CarData
    dds_mode_data,            \* writer.write calls per mode topic (count)
    dds_last_result,          \* outcome of the last write on DDS topic CarData
    fwd_reads,                \* modes read by CarDataPublisher with a writer
    pub_last,                 \* last step of each mode publisher: reads, decision, write
    mode_changed_at,          \* instants of the last two changes of current_mode
    arbiter_steps,            \* number of CarModeCalculator steps taken
    car_data_runs,            \* modes CarModeCalculator sent, equal neighbours once
    stepped,                  \* activities that have stepped in this cycle
    camera,                   \* Camera fields (distance in thousandths of a metre)
    radar_distance,           \* Radar.distance_obstacle (thousandths of a metre)
    cam_visit,                \* invocations of get_image in the scenario in effect
    demo_camera,              \* feo_demo Camera fields (distance in thousandths)
    demo_image_ch,            \* feo_demo camera topic, the latest CameraImage
    demo_images,              \* invocations of the feo_demo get_image
    panicked,                 \* activities ended by a panic
    kvs,                      \* the key-value store of the persistency service
    put_log,                  \* per key, the value of its last successful put
    del_log,                  \* per key, its last delete succeeded, no write since
    cleared,                  \* prefixes whose last delete_all succeeded, no write since
    reply,                    \* what the last persistency call returned
    CLIENT,                   \* the global cell holds a client
    init_call,                \* get_client's initialisation in progress
    init_log,                 \* what the calls of get_client did
    sched_done,               \* configured activities that have run in this cycle
    sched_running,            \* per worker, the activity it is running
    obs                       \* what the last step did

arbiter_vars == <<current_mode, previous_published_mode, last_mode_change_time,
                  current_speed, target_speed, steering_angle, brake_force>>
channel_vars == <<image_ch, scan_ch, scene_ch, car_data_ch>>
fwd_vars     == <<fwd_writer, fwd_participant, last_published_mode, dds_car_data,
                  dds_last_result, fwd_reads>>
pub_vars     == <<pub_writer, pub_participant, discovery_counter, dds_mode_data,
                  pub_last>>
arbiter_ghost == <<mode_changed_at, arbiter_steps, car_data_runs>>
demo_vars    == <<demo_camera, demo_image_ch, demo_images>>
sensor_vars  == <<camera, radar_distance, cam_visit, demo_vars>>
client_vars  == <<CLIENT, init_call, init_log>>
sched_vars   == <<sched_done, sched_running>>
kv_vars      == <<kvs, put_log, del_log, cleared, reply, client_vars, sched_vars>>
vars == <<now, image_ch, scan_ch, scene_ch, car_data_ch, current_mode,
          previous_published_mode, last_mode_change_time, current_speed,
          target_speed, steering_angle, brake_force, fwd_writer,
          fwd_participant, last_published_mode, pub_writer, pub_participant,
          discovery_counter, dds_car_data,
          dds_mode_data, dds_last_result, fwd_reads, pub_last,
          mode_changed_at, arbiter_steps, car_data_runs, stepped, camera, radar_distance,
          cam_visit, demo_camera, demo_image_ch, demo_images, panicked, kvs, put_log, del_log, cleared,
          reply, CLIENT, init_call, init_log, sched_done, sched_running, obs>>

----------------------------------------------------------------------------
(* Bounds of the model *)

MaxArbiterSteps == 3
MaxFwdReads == 6
MaxDiscovery == 2
MaxDynamicsSteps == 10
MaxSteeringSteps == 6
MaxCalls == 2
MaxDemoImages == 4

(* Program constants *)

emergency_threshold == 40
obstacle_threshold == 60
mode_change_cooldown == 15
SCALE_FACTOR == 1000
key_length_limit == 1024
MAX_RETRIES == 10
RETRY_DELAY_MS == 1000

None == <<>>
Some(x) == <<x>>

Modes == {"autonomous", "manual", "emergency"}

\* values of the hash-based random source that the steps draw
RawDraws == {0, 4000}
\* clock readings at which steps are scheduled
Instants == {0, 1, 14, 15, 16, 30}

Max(a, b) == IF a >= b THEN a ELSE b
Min(a, b) == IF a <= b THEN a ELSE b
Clamp(x, lo, hi) == IF x < lo THEN lo ELSE IF x > hi THEN hi ELSE x
\* x * 0.1, rounded towards zero
Tenth(x) == IF x >= 0 THEN x \div 10 ELSE -((-x) \div 10)

----------------------------------------------------------------------------
(* Random source *)

GenRandomInRange(range_start, range_end, rand) ==
    (rand % (range_end - range_start + 1)) + range_start

\* the values that gen_random_in_range(0..100) returns
ChanceDraws == 0..100

\* change_prop is given in hundredths, max_delta in thousandths
RandomWalkFloat(previous, change_prop, max_delta, r1, r2) ==
    IF GenRandomInRange(0, 100, r1) < change_prop
    THEN previous + GenRandomInRange(-max_delta, max_delta, r2)
    ELSE previous

RandomWalkInteger(previous, change_prop, max_delta, r1, r2) ==
    IF GenRandomInRange(0, 100, r1) < change_prop
    THEN Max(0, previous + GenRandomInRange(-max_delta, max_delta, r2))
    ELSE previous

----------------------------------------------------------------------------
(* Activities and the workers that run them *)

Activities ==
    { "Camera", "Radar", "NeuralNet", "CarModeCalculator", "CarDataPublisher",
      "AutonomousModePublisher", "ManualModePublisher", "EmergencyModePublisher" }

\* the worker an activity is assigned to
WorkerOf(a) ==
    CASE a = "Camera" -> 40
      [] a = "Radar" -> 41
      [] OTHER -> 42

\* a panic in a step of activity a unwinds the thread of its worker
Panic(a) == panicked \cup {b \in Activities : WorkerOf(b) = WorkerOf(a)}

Alive(a) == a \notin panicked

----------------------------------------------------------------------------
(* The activity configuration *)

\* the ids of activity_dependencies: Camera 0, Radar 1, NeuralNet 2,
\* EnvironmentRenderer 3, LaneAssist 5, SteeringController 7,
\* TrajectoryVisualizer 8, CarModeCalculator 9, CarDataPublisher 10,
\* AutonomousModePublisher 11, ManualModePublisher 12,
\* EmergencyModePublisher 13
ActivityIds == {0, 1, 2, 3, 5, 7, 8, 9, 10, 11, 12, 13}

\* a slip: CarDataPublisher waits for nobody
ActivityDependenciesForwarderFree(a) ==
    CASE a \in {0, 1, 10} -> {}
      [] a = 2 -> {0, 1}
      [] a \in {3, 5, 9} -> {2}
      [] a \in {7, 8} -> {5}
      [] a \in {11, 12, 13} -> {10}

ActivityDependencies(a) ==
    CASE a \in {0, 1} -> {}
      [] a = 2 -> {0, 1}
      [] a \in {3, 5, 9} -> {2}
      [] a \in {7, 8} -> {5}
      [] a = 10 -> {9}
      [] a \in {11, 12, 13} -> {10}

\* per topic, the activities listed Outgoing and Incoming
TopicDependencies ==
    { [topic |-> "feo/com/vehicle/camera/front", outgoing |-> <<0>>, incoming |-> <<2>>],
      [topic |-> "feo/com/vehicle/radar/front", outgoing |-> <<1>>, incoming |-> <<2>>],
      [topic |-> "feo/com/vehicle/inferred/scene", outgoing |-> <<2>>,
       incoming |-> <<3, 5, 9, 11, 12, 13>>],
      [topic |-> "feo/com/vehicle/control/steering", outgoing |-> <<5>>, incoming |-> <<7>>],
      [topic |-> "feo/com/vehicle/car_data", outgoing |-> <<9>>,
       incoming |-> <<10, 11, 12, 13>>],
      [topic |-> "feo/com/vehicle/autonomous_data", outgoing |-> <<11>>, incoming |-> <<>>],
      [topic |-> "feo/com/vehicle/manual_data", outgoing |-> <<12>>, incoming |-> <<>>],
      [topic |-> "feo/com/vehicle/emergency_data", outgoing |-> <<13>>, incoming |-> <<>>] }

Workers == {40, 41, 42, 44}

\* per worker, the activities assigned to it, in the order of its vector
AgentAssignments ==
    [ w \in Workers |->
        CASE w = 40 -> <<0>>
          [] w = 41 -> <<1>>
          [] w = 42 -> <<2, 3, 9, 10, 11, 12, 13>>
          [] w = 44 -> <<5, 7, 8>> ]

\* the elements of a sequence
Range(seq) == { seq[i] : i \in 1..Len(seq) }

----------------------------------------------------------------------------
(* Sensors and fusion *)

\* the scenario after cur and the number of steps it is set to last
NextScenario(cur) ==
    CASE cur = "highway" -> [scenario |-> "city", duration |-> 30]
      [] cur = "city" -> [scenario |-> "suburban", duration |-> 25]
      [] cur = "suburban" -> [scenario |-> "emergency_test", duration |-> 15]
      [] cur = "emergency_test" -> [scenario |-> "highway", duration |-> 40]

\* the walks of a scenario: change probability (hundredths), largest step and
\* clamp range of num_people, num_cars and distance_obstacle
Walks(scenario) ==
    CASE scenario = "highway" ->
           [ people |-> [p |-> 30, delta |-> 1, lo |-> 0, hi |-> 3],
             cars |-> [p |-> 70, delta |-> 2, lo |-> 2, hi |-> 8],
             distance |-> [p |-> 80, delta |-> 8 * SCALE_FACTOR,
                           lo |-> 4 * SCALE_FACTOR, hi |-> 25 * SCALE_FACTOR] ]
      [] scenario = "city" ->
           [ people |-> [p |-> 90, delta |-> 3, lo |-> 3, hi |-> 9],
             cars |-> [p |-> 90, delta |-> 3, lo |-> 4, hi |-> 10],
             distance |-> [p |-> 100, delta |-> 6 * SCALE_FACTOR,
                           lo |-> 3 * SCALE_FACTOR, hi |-> 12 * SCALE_FACTOR] ]
      [] scenario = "suburban" ->
           [ people |-> [p |-> 60, delta |-> 2, lo |-> 2, hi |-> 6],
             cars |-> [p |-> 60, delta |-> 2, lo |-> 3, hi |-> 7],
             distance |-> [p |-> 70, delta |-> 4 * SCALE_FACTOR,
                           lo |-> 4 * SCALE_FACTOR, hi |-> 18 * SCALE_FACTOR] ]
      [] scenario = "emergency_test" ->
           [ people |-> [p |-> 40, delta |-> 1, lo |-> 0, hi |-> 3],
             cars |-> [p |-> 40, delta |-> 1, lo |-> 1, hi |-> 4],
             distance |-> [p |-> 100, delta |-> 2 * SCALE_FACTOR,
                           lo |-> (3 * SCALE_FACTOR) \div 2,
                           hi |-> 5 * SCALE_FACTOR] ]

\* a slip: the walks and clamps of the scenario in effect before the switch
GetImageOldRange(cam, r) ==
    LET timer == cam.scenario_timer + 1
        switch == timer >= cam.scenario_duration
        next == NextScenario(cam.current_scenario)
        scenario == IF switch THEN next.scenario ELSE cam.current_scenario
        w == Walks(cam.current_scenario)
    IN  [ scenario_timer |-> IF switch THEN 0 ELSE timer,
          current_scenario |-> scenario,
          scenario_duration |-> IF switch THEN next.duration
                                ELSE cam.scenario_duration,
          num_people |->
              Clamp(RandomWalkInteger(cam.num_people, w.people.p,
                                      w.people.delta, r[1], r[2]),
                    w.people.lo, w.people.hi),
          num_cars |->
              Clamp(RandomWalkInteger(cam.num_cars, w.cars.p,
                                      w.cars.delta, r[3], r[4]),
                    w.cars.lo, w.cars.hi),
          distance_obstacle |->
              Clamp(RandomWalkFloat(cam.distance_obstacle, w.distance.p,
                                    w.distance.delta, r[5], r[6]),
                    w.distance.lo, w.distance.hi) ]

\* the Camera fields after get_image; r: the six values drawn
GetImage(cam, r) ==
    LET timer == cam.scenario_timer + 1
        switch == timer >= cam.scenario_duration
        next == NextScenario(cam.current_scenario)
        scenario == IF switch THEN next.scenario ELSE cam.current_scenario
        w == Walks(scenario)
    IN  [ scenario_timer |-> IF switch THEN 0 ELSE timer,
          current_scenario |-> scenario,
          scenario_duration |-> IF switch THEN next.duration
                                ELSE cam.scenario_duration,
          num_people |->
              Clamp(RandomWalkInteger(cam.num_people, w.people.p,
                                      w.people.delta, r[1], r[2]),
                    w.people.lo, w.people.hi),
          num_cars |->
              Clamp(RandomWalkInteger(cam.num_cars, w.cars.p,
                                      w.cars.delta, r[3], r[4]),
                    w.cars.lo, w.cars.hi),
          distance_obstacle |->
              Clamp(RandomWalkFloat(cam.distance_obstacle, w.distance.p,
                                    w.distance.delta, r[5], r[6]),
                    w.distance.lo, w.distance.hi) ]

\* a slip: num_cars walks from the previous num_cars
FeoDemoGetImageFromCars(cam, r) ==
    [ num_people |-> RandomWalkInteger(cam.num_people, 80, 1, r[1], r[2]),
      num_cars |-> RandomWalkInteger(cam.num_cars, 80, 2, r[3], r[4]),
      distance_obstacle |->
          Clamp(RandomWalkFloat(cam.distance_obstacle, 100, 5 * SCALE_FACTOR,
                                r[5], r[6]),
                20 * SCALE_FACTOR, 50 * SCALE_FACTOR) ]

\* the feo_demo Camera fields after its get_image: num_cars walks from the
\* num_people just assigned
FeoDemoGetImage(cam, r) ==
    LET num_people == RandomWalkInteger(cam.num_people, 80, 1, r[1], r[2])
    IN  [ num_people |-> num_people,
          num_cars |-> RandomWalkInteger(num_people, 80, 2, r[3], r[4]),
          distance_obstacle |->
              Clamp(RandomWalkFloat(cam.distance_obstacle, 100,
                                    5 * SCALE_FACTOR, r[5], r[6]),
                    20 * SCALE_FACTOR, 50 * SCALE_FACTOR) ]

\* thousandths of a metre as tenths, the unit of the readings on the topics
Tenths(mm) == mm \div 100

\* the CameraImage built from the Camera fields
ImageOf(cam) ==
    [ num_people |-> cam.num_people,
      num_cars |-> cam.num_cars,
      distance_obstacle |-> Tenths(cam.distance_obstacle) ]

\* Radar.distance_obstacle after get_scan
GetScan(distance, r1, r2) ==
    Clamp(RandomWalkFloat(distance, 100, 10 * SCALE_FACTOR, r1, r2),
          (3 * SCALE_FACTOR) \div 2, 30 * SCALE_FACTOR)

\* the RadarScan built by get_scan; r3: the value drawn for error_margin
ScanOf(distance, r3) ==
    [ distance_obstacle |-> Tenths(distance),
      error_margin |-> GenRandomInRange(-10, 10, r3) ]

\* a slip: the radar distance taken less its error margin
InferLessMargin(image, radar, r1, r2) ==
    [ num_people |-> image.num_people,
      num_cars |-> image.num_cars,
      distance_obstacle |-> Min(image.distance_obstacle,
                                radar.distance_obstacle - radar.error_margin),
      distance_left_lane |-> GenRandomInRange(5, 10, r1),
      distance_right_lane |-> GenRandomInRange(5, 10, r2) ]

Infer(image, radar, r1, r2) ==
    [ num_people |-> image.num_people,
      num_cars |-> image.num_cars,
      distance_obstacle |-> Min(image.distance_obstacle, radar.distance_obstacle),
      distance_left_lane |-> GenRandomInRange(5, 10, r1),
      distance_right_lane |-> GenRandomInRange(5, 10, r2) ]

----------------------------------------------------------------------------
(* CarModeCalculator *)

\* a slip: the manual conditions tested before the emergency condition
PotentialNewModeManualFirst(scene) ==
    IF \/ scene.distance_obstacle < obstacle_threshold
       \/ scene.num_people > 4
       \/ scene.num_cars > 5
    THEN "manual"
    ELSE IF scene.distance_obstacle < emergency_threshold THEN "emergency"
         ELSE "autonomous"

PotentialNewMode(scene) ==
    LET emergency_cond == scene.distance_obstacle < emergency_threshold
        manual_distance_cond == scene.distance_obstacle < obstacle_threshold
        manual_people_cond == scene.num_people > 4
        manual_cars_cond == scene.num_cars > 5
    IN  IF emergency_cond THEN "emergency"
        ELSE IF manual_distance_cond \/ manual_people_cond \/ manual_cars_cond
             THEN "manual"
             ELSE "autonomous"

\* a slip: the cooldown compared the wrong way round
CanChangeModeInverted(potential_new_mode, last_change, t) ==
    IF potential_new_mode = "emergency" THEN TRUE
    ELSE IF last_change # None
         THEN (t - last_change[1]) <= mode_change_cooldown
         ELSE TRUE

\* a slip: half the cooldown is enough
CanChangeModeHalfCooldown(potential_new_mode, last_change, t) ==
    IF potential_new_mode = "emergency" THEN TRUE
    ELSE IF last_change # None
         THEN 2 * (t - last_change[1]) >= mode_change_cooldown
         ELSE TRUE

\* a slip: the emergency candidate waits for the cooldown like the others
CanChangeModeNoBypass(potential_new_mode, last_change, t) ==
    IF last_change # None
    THEN (t - last_change[1]) >= mode_change_cooldown
    ELSE TRUE

CanChangeMode(potential_new_mode, last_change, t) ==
    IF potential_new_mode = "emergency" THEN TRUE
    ELSE IF last_change # None
         THEN (t - last_change[1]) >= mode_change_cooldown
         ELSE TRUE

\* a slip: a candidate equal to the current mode counts as a change
ShouldChangeModeAnyCandidate(potential_new_mode, mode, last_change, t) ==
    CanChangeMode(potential_new_mode, last_change, t)

ShouldChangeMode(potential_new_mode, mode, last_change, t) ==
    potential_new_mode # mode /\ CanChangeMode(potential_new_mode, last_change, t)

\* a slip: the emergency target without its floor of 10 km/h
UpdateVehicleBehaviorNoFloor(mode, scene, speed, target, brake, r) ==
    CASE mode = "emergency" ->
           [ target_speed |-> (speed * 3) \div 10,
             brake_force |-> 80 * SCALE_FACTOR ]
      [] mode = "manual" ->
           [ target_speed |->
               Clamp(IF scene.distance_obstacle < 100
                     THEN 30 * SCALE_FACTOR + scene.distance_obstacle * 300
                     ELSE 40 * SCALE_FACTOR
                          + RandomWalkFloat(0, 30, 15 * SCALE_FACTOR, r[1], r[2]),
                     25 * SCALE_FACTOR, 70 * SCALE_FACTOR),
             brake_force |->
               Clamp(RandomWalkFloat(0, 20, 20 * SCALE_FACTOR, r[3], r[4]),
                     0, 40 * SCALE_FACTOR) ]
      [] mode = "autonomous" ->
           [ target_speed |->
               Clamp(65 * SCALE_FACTOR
                     + RandomWalkFloat(0, 10, 5 * SCALE_FACTOR, r[1], r[2]),
                     60 * SCALE_FACTOR, 75 * SCALE_FACTOR),
             brake_force |->
               Clamp(RandomWalkFloat(0, 10, 5 * SCALE_FACTOR, r[3], r[4]),
                     0, 15 * SCALE_FACTOR) ]
      [] OTHER -> [ target_speed |-> target, brake_force |-> brake ]

\* target_speed and brake_force after update_vehicle_behavior
UpdateVehicleBehavior(mode, scene, speed, target, brake, r) ==
    CASE mode = "emergency" ->
           [ target_speed |-> Max((speed * 3) \div 10, 10 * SCALE_FACTOR),
             brake_force |-> 80 * SCALE_FACTOR ]
      [] mode = "manual" ->
           [ target_speed |->
               Clamp(IF scene.distance_obstacle < 100
                     THEN 30 * SCALE_FACTOR + scene.distance_obstacle * 300
                     ELSE 40 * SCALE_FACTOR
                          + RandomWalkFloat(0, 30, 15 * SCALE_FACTOR, r[1], r[2]),
                     25 * SCALE_FACTOR, 70 * SCALE_FACTOR),
             brake_force |->
               Clamp(RandomWalkFloat(0, 20, 20 * SCALE_FACTOR, r[3], r[4]),
                     0, 40 * SCALE_FACTOR) ]
      [] mode = "autonomous" ->
           [ target_speed |->
               Clamp(65 * SCALE_FACTOR
                     + RandomWalkFloat(0, 10, 5 * SCALE_FACTOR, r[1], r[2]),
                     60 * SCALE_FACTOR, 75 * SCALE_FACTOR),
             brake_force |->
               Clamp(RandomWalkFloat(0, 10, 5 * SCALE_FACTOR, r[3], r[4]),
                     0, 15 * SCALE_FACTOR) ]
      [] OTHER -> [ target_speed |-> target, brake_force |-> brake ]

\* a slip: the speed set to its target at once
AdjustVehicleDynamicsSnap(speed, target, steering, r) ==
    [ current_speed |-> Clamp(target, 5 * SCALE_FACTOR, 120 * SCALE_FACTOR),
      steering_angle |->
        Clamp(RandomWalkFloat(steering, 10, 2 * SCALE_FACTOR, r[5], r[6]),
              -10 * SCALE_FACTOR, 10 * SCALE_FACTOR) ]

\* a slip: a fifth of the difference taken per step
AdjustVehicleDynamicsFifth(speed, target, steering, r) ==
    [ current_speed |->
        Clamp(speed + 2 * Tenth(target - speed), 5 * SCALE_FACTOR,
              120 * SCALE_FACTOR),
      steering_angle |->
        Clamp(RandomWalkFloat(steering, 10, 2 * SCALE_FACTOR, r[5], r[6]),
              -10 * SCALE_FACTOR, 10 * SCALE_FACTOR) ]

\* current_speed and steering_angle after adjust_vehicle_dynamics
AdjustVehicleDynamics(speed, target, steering, r) ==
    [ current_speed |->
        Clamp(speed + Tenth(target - speed), 5 * SCALE_FACTOR, 120 * SCALE_FACTOR),
      steering_angle |->
        Clamp(RandomWalkFloat(steering, 10, 2 * SCALE_FACTOR, r[5], r[6]),
              -10 * SCALE_FACTOR, 10 * SCALE_FACTOR) ]

----------------------------------------------------------------------------
(* CarDataPublisher *)

\* a slip: every CarData read is forwarded
ShouldPublishAlways(last_mode, driving_mode) == TRUE

ShouldPublish(last_mode, driving_mode) ==
    IF last_mode # None THEN last_mode[1] # driving_mode ELSE TRUE

\* a slip: last_published_mode advanced only when the write returned Ok
AfterWriteOkOnly(last_mode, driving_mode, write_ok) ==
    IF write_ok THEN Some(driving_mode) ELSE last_mode

\* last_published_mode after writer.write returned Ok (write_ok) or Err
AfterWrite(last_mode, driving_mode, write_ok) ==
    IF write_ok THEN Some(driving_mode) ELSE Some(driving_mode)

----------------------------------------------------------------------------
(* Mode publishers: the mode-is-active decision of each step *)

\* a slip: the autonomous publisher active on every CarData but emergency
IsAutonomousModeNotEmergency(car_data_result, scene_result) ==
    IF car_data_result # None
    THEN car_data_result[1].driving_mode # "emergency"
    ELSE IF scene_result # None
         THEN LET scene == scene_result[1]
                  emergency_cond == scene.distance_obstacle < 40
                  manual_cond == \/ scene.distance_obstacle < 60
                                 \/ scene.num_people > 4
                                 \/ scene.num_cars > 5
              IN  ~emergency_cond /\ ~manual_cond
         ELSE FALSE

IsAutonomousMode(car_data_result, scene_result) ==
    IF car_data_result # None
    THEN car_data_result[1].driving_mode = "autonomous"
    ELSE IF scene_result # None
         THEN LET scene == scene_result[1]
                  emergency_cond == scene.distance_obstacle < 40
                  manual_cond == \/ scene.distance_obstacle < 60
                                 \/ scene.num_people > 4
                                 \/ scene.num_cars > 5
              IN  ~emergency_cond /\ ~manual_cond
         ELSE FALSE

\* a slip: the fallback of the manual publisher without the emergency test
IsManualModeNoEmergencyTest(car_data_result, scene_result) ==
    IF car_data_result # None
    THEN car_data_result[1].driving_mode = "manual"
    ELSE IF scene_result # None
         THEN LET scene == scene_result[1]
              IN  \/ scene.distance_obstacle < 60
                  \/ scene.num_people > 4
                  \/ scene.num_cars > 5
         ELSE FALSE

IsManualMode(car_data_result, scene_result) ==
    IF car_data_result # None
    THEN car_data_result[1].driving_mode = "manual"
    ELSE IF scene_result # None
         THEN LET scene == scene_result[1]
                  emergency_cond == scene.distance_obstacle < 40
                  manual_cond == \/ scene.distance_obstacle < 60
                                 \/ scene.num_people > 4
                                 \/ scene.num_cars > 5
              IN  ~emergency_cond /\ manual_cond
         ELSE FALSE

\* a slip: the Scene consulted before the CarData
IsEmergencyModeSceneFirst(car_data_result, scene_result) ==
    IF scene_result # None
    THEN scene_result[1].distance_obstacle < 40
    ELSE IF car_data_result # None
         THEN car_data_result[1].driving_mode = "emergency"
         ELSE FALSE

IsEmergencyMode(car_data_result, scene_result) ==
    IF car_data_result # None
    THEN car_data_result[1].driving_mode = "emergency"
    ELSE IF scene_result # None
         THEN scene_result[1].distance_obstacle < 40
         ELSE FALSE

\* which read decided: CarData, else Scene, else neither
DecisionPath(car_data_result, scene_result) ==
    IF car_data_result # None THEN "car_data"
    ELSE IF scene_result # None THEN "scene" ELSE "none"

----------------------------------------------------------------------------
(* Observation of the last step *)

\* act: the activity; read: its input was available; cand: the mode it
\* considered; wrote: it wrote its output; ok: the transport returned Ok
Obs(act, read, cand, wrote, ok) ==
    [act |-> act, read |-> read, cand |-> cand, wrote |-> wrote, ok |-> ok]

----------------------------------------------------------------------------
\* a key one character longer than the clients accept
LongKey == [i \in 1..(key_length_limit + 1) |-> "a"]

\* the keys the clients of the persistency service use: sequences of characters
Keys ==
    { <<>>, <<"a">>, <<"a", "b">>, <<"a", "<">>, LongKey }

\* the keys short enough to be sent to the service
StoreKeys == { k \in Keys : Len(k) <= key_length_limit }

\* the activities as built, the topics other than inferred-scene empty
Built ==
    /\ now = 0
    /\ image_ch = None
    /\ scan_ch = None
    /\ car_data_ch = None
    /\ current_mode = "manual"
    /\ previous_published_mode = ""
    /\ last_mode_change_time = None
    /\ current_speed = 50 * SCALE_FACTOR
    /\ target_speed = 50 * SCALE_FACTOR
    /\ steering_angle = 0
    /\ brake_force = 0
    /\ fwd_writer = FALSE
    /\ fwd_participant = FALSE
    /\ last_published_mode = None
    /\ pub_writer = [m \in Modes |-> FALSE]
    /\ pub_participant = [m \in Modes |-> FALSE]
    /\ discovery_counter = [m \in Modes |-> 0]
    /\ dds_car_data = <<>>
    /\ dds_mode_data = [m \in Modes |-> 0]
    /\ dds_last_result = "none"
    /\ fwd_reads = <<>>
    /\ pub_last = [m \in Modes |-> [path |-> "unset", active |-> FALSE,
                                     car_data |-> None, scene |-> FALSE,
                                     wrote |-> FALSE]]
    /\ mode_changed_at = <<>>
    /\ arbiter_steps = 0
    /\ car_data_runs = <<>>
    /\ stepped = {}
    /\ camera = [ num_people |-> 2, num_cars |-> 3,
                  distance_obstacle |-> 10 * SCALE_FACTOR,
                  scenario_timer |-> 0, current_scenario |-> "highway",
                  scenario_duration |-> 40 ]
    /\ radar_distance = 10 * SCALE_FACTOR
    /\ cam_visit = 0
    /\ demo_camera = [ num_people |-> 4, num_cars |-> 10,
                       distance_obstacle |-> 40 * SCALE_FACTOR ]
    /\ demo_image_ch = None
    /\ demo_images = 0
    /\ panicked = {}
    /\ kvs = [k \in StoreKeys |-> None]
    /\ put_log = [k \in StoreKeys |-> None]
    /\ del_log = [k \in StoreKeys |-> FALSE]
    /\ cleared = {}
    /\ reply = [op |-> "none", key |-> <<>>, result |-> "none", value |-> ""]
    /\ CLIENT = FALSE
    /\ init_call = [pc |-> "idle", attempt |-> 0, last_error |-> None]
    /\ init_log = [calls |-> 0, outcomes |-> <<>>, slept |-> 0, result |-> "none"]
    /\ sched_done = {}
    /\ sched_running = [w \in Workers |-> None]
    /\ obs = Obs("build", FALSE, "", FALSE, TRUE)

Init == Built /\ scene_ch = None

\* time passes between steps (sleep_random, scheduling)
Tick ==
    \E t \in Instants :
        /\ t > now
        /\ now' = t
        /\ obs' = Obs("tick", FALSE, "", FALSE, TRUE)
        /\ UNCHANGED <<channel_vars, arbiter_vars, fwd_vars, pub_vars, arbiter_ghost,
                       sensor_vars, panicked, kv_vars>>

----------------------------------------------------------------------------
(* Camera, Radar, NeuralNet *)

\* draws: the vectors of six values get_image may draw
CameraStep(draws) ==
    /\ Alive("Camera")
    /\ \E uninit_ok \in BOOLEAN, send_ok \in BOOLEAN, r \in draws :
        LET cam == IF uninit_ok THEN GetImage(camera, r) ELSE camera
            sent == uninit_ok /\ send_ok
        IN  /\ camera' = cam
            /\ cam_visit' = IF ~uninit_ok THEN cam_visit
                            ELSE IF cam.current_scenario # camera.current_scenario
                                 THEN 1 ELSE cam_visit + 1
            /\ image_ch' = IF sent THEN Some(ImageOf(cam)) ELSE image_ch
            /\ panicked' = IF uninit_ok /\ ~send_ok THEN Panic("Camera")
                           ELSE panicked
            /\ obs' = Obs("Camera", TRUE, "", sent, sent)
    /\ UNCHANGED <<now, radar_distance, demo_vars, kv_vars, scan_ch, scene_ch, car_data_ch,
                   arbiter_vars, fwd_vars, pub_vars, arbiter_ghost>>

\* the values the feo_demo get_image may draw: each walk stepping or not,
\* every delta of the two integer walks, the ends and the middle of the
\* distance walk
FeoDemoDraws ==
    { <<r1, r2, r3, r4, r5, r6>> :
        r1 \in {0, 80}, r2 \in 0..2, r3 \in {0, 80}, r4 \in 0..4,
        r5 \in {0, 100}, r6 \in {0, 5 * SCALE_FACTOR, 10 * SCALE_FACTOR} }

\* the feo_demo Camera::step: the image is generated once the output sample
\* is obtained, and a failed send ends the activity
FeoDemoCameraStep ==
    /\ Alive("FeoDemoCamera")
    /\ demo_images < MaxDemoImages
    /\ \E uninit_ok \in BOOLEAN, send_ok \in BOOLEAN, r \in FeoDemoDraws :
        LET cam == IF uninit_ok THEN FeoDemoGetImage(demo_camera, r)
                   ELSE demo_camera
            sent == uninit_ok /\ send_ok
        IN  /\ demo_camera' = cam
            /\ demo_images' = IF uninit_ok THEN demo_images + 1 ELSE demo_images
            /\ demo_image_ch' = IF sent THEN Some(cam) ELSE demo_image_ch
            /\ panicked' = IF uninit_ok /\ ~send_ok
                           THEN panicked \cup {"FeoDemoCamera"} ELSE panicked
            /\ obs' = Obs("FeoDemoCamera", TRUE, "", sent, sent)
    /\ UNCHANGED <<now, camera, radar_distance, cam_visit, kv_vars, channel_vars,
                   arbiter_vars, fwd_vars, pub_vars, arbiter_ghost>>

\* draws: the vectors of three values get_scan may draw
RadarStep(draws) ==
    /\ Alive("Radar")
    /\ \E uninit_ok \in BOOLEAN, send_ok \in BOOLEAN, r \in draws :
        LET distance == IF uninit_ok THEN GetScan(radar_distance, r[1], r[2])
                        ELSE radar_distance
            sent == uninit_ok /\ send_ok
        IN  /\ radar_distance' = distance
            /\ scan_ch' = IF sent THEN Some(ScanOf(distance, r[3])) ELSE scan_ch
            /\ panicked' = IF uninit_ok /\ ~send_ok THEN Panic("Radar")
                           ELSE panicked
            /\ obs' = Obs("Radar", TRUE, "", sent, sent)
    /\ UNCHANGED <<now, camera, cam_visit, demo_vars, kv_vars, image_ch, scene_ch,
                   car_data_ch, arbiter_vars, fwd_vars, pub_vars, arbiter_ghost>>

\* NeuralNet::step with the reads unwrapped: a missing input is a panic
NeuralNetStepUnwrapReads(draws) ==
    /\ Alive("NeuralNet")
    /\ \E uninit_ok \in BOOLEAN, send_ok \in BOOLEAN, r1 \in draws, r2 \in draws :
        LET read == image_ch # None /\ scan_ch # None
            sent == read /\ uninit_ok /\ send_ok
        IN  /\ scene_ch' = IF sent
                           THEN Some(Infer(image_ch[1], scan_ch[1], r1, r2))
                           ELSE scene_ch
            /\ panicked' = IF ~read \/ (uninit_ok /\ ~send_ok)
                           THEN Panic("NeuralNet") ELSE panicked
            /\ obs' = Obs("NeuralNet", read, "", sent, uninit_ok /\ send_ok)
    /\ UNCHANGED <<now, sensor_vars, kv_vars, image_ch, scan_ch, car_data_ch,
                   arbiter_vars, fwd_vars, pub_vars, arbiter_ghost>>

NeuralNetStep(draws) ==
    /\ Alive("NeuralNet")
    /\ \E uninit_ok \in BOOLEAN, send_ok \in BOOLEAN, r1 \in draws, r2 \in draws :
        LET read == image_ch # None /\ scan_ch # None
            sent == read /\ uninit_ok /\ send_ok
        IN  /\ scene_ch' = IF sent
                           THEN Some(Infer(image_ch[1], scan_ch[1], r1, r2))
                           ELSE scene_ch
            /\ panicked' = IF read /\ uninit_ok /\ ~send_ok
                           THEN Panic("NeuralNet") ELSE panicked
            /\ obs' = Obs("NeuralNet", read, "", sent, uninit_ok /\ send_ok)
    /\ UNCHANGED <<now, sensor_vars, kv_vars, image_ch, scan_ch, car_data_ch,
                   arbiter_vars, fwd_vars, pub_vars, arbiter_ghost>>

----------------------------------------------------------------------------
(* CarModeCalculator::step *)

\* the write on car-data that closes a step which read a Scene
\* a slip: car-data written only when the mode differs from the one last logged
WriteCarDataOnChange(channel, mode, previous_mode, uninit_ok) ==
    [ ch |-> IF uninit_ok /\ mode # previous_mode
             THEN Some([driving_mode |-> mode]) ELSE channel,
      wrote |-> uninit_ok /\ mode # previous_mode ]

WriteCarData(channel, mode, previous_mode, uninit_ok) ==
    [ ch |-> IF uninit_ok THEN Some([driving_mode |-> mode]) ELSE channel,
      wrote |-> uninit_ok ]

\* a slip: a change into emergency leaves the instant of the last change
ModeChangeTimeAfterKeptOnEmergency(should_change_mode, new_mode, last_change, t) ==
    IF should_change_mode /\ new_mode # "emergency" THEN Some(t) ELSE last_change

\* last_mode_change_time after the step: Instant::now() on every change
ModeChangeTimeAfter(should_change_mode, new_mode, last_change, t) ==
    IF should_change_mode THEN Some(t) ELSE last_change

\* seq with mode added, unless mode is its last element
AppendRun(seq, mode) ==
    IF seq # <<>> /\ seq[Len(seq)] = mode THEN seq ELSE Append(seq, mode)

\* a slip: the mode published also by a step that read no Scene
CarModeCalculatorNoSceneRepublish ==
    /\ car_data_ch' = Some([driving_mode |-> current_mode])
    /\ car_data_runs' = AppendRun(car_data_runs, current_mode)
    /\ obs' = Obs("CarModeCalculator", FALSE, "", TRUE, TRUE)
    /\ UNCHANGED <<now, sensor_vars, panicked, kv_vars, image_ch, scan_ch, scene_ch, arbiter_vars,
                   mode_changed_at, fwd_vars, pub_vars>>

CarModeCalculatorNoScene ==
    /\ obs' = Obs("CarModeCalculator", FALSE, "", FALSE, TRUE)
    /\ UNCHANGED <<now, sensor_vars, panicked, kv_vars, channel_vars, arbiter_vars, mode_changed_at,
                   car_data_runs,
                   fwd_vars, pub_vars>>

CarModeCalculatorOnScene(scene, uninit_ok, send_ok, r) ==
    LET potential_new_mode == PotentialNewMode(scene)
        should_change_mode ==
            ShouldChangeMode(potential_new_mode, current_mode,
                             last_mode_change_time, now)
        new_mode == IF should_change_mode THEN potential_new_mode
                    ELSE current_mode
        behavior == IF should_change_mode
                    THEN UpdateVehicleBehavior(new_mode, scene, current_speed,
                                               target_speed, brake_force, r)
                    ELSE [ target_speed |-> target_speed,
                           brake_force |-> brake_force ]
        dynamics == AdjustVehicleDynamics(current_speed, behavior.target_speed,
                                          steering_angle, r)
        written == WriteCarData(car_data_ch, new_mode, previous_published_mode,
                                uninit_ok)
    IN  /\ current_mode' = new_mode
        /\ last_mode_change_time' =
               ModeChangeTimeAfter(should_change_mode, new_mode,
                                   last_mode_change_time, now)
        /\ target_speed' = behavior.target_speed
        /\ brake_force' = behavior.brake_force
        /\ current_speed' = dynamics.current_speed
        /\ steering_angle' = dynamics.steering_angle
        /\ previous_published_mode' = new_mode
        /\ car_data_ch' = IF send_ok THEN written.ch ELSE car_data_ch
        /\ panicked' = IF written.wrote /\ ~send_ok
                       THEN Panic("CarModeCalculator") ELSE panicked
        /\ mode_changed_at' =
               IF new_mode = current_mode THEN mode_changed_at
               ELSE IF mode_changed_at = <<>> THEN <<now>>
               ELSE <<mode_changed_at[Len(mode_changed_at)], now>>
        /\ car_data_runs' = IF written.wrote /\ send_ok
                            THEN AppendRun(car_data_runs, new_mode)
                            ELSE car_data_runs
        /\ obs' = Obs("CarModeCalculator", TRUE, potential_new_mode,
                      written.wrote /\ send_ok, uninit_ok /\ send_ok)
        /\ UNCHANGED <<now, sensor_vars, kv_vars, image_ch, scan_ch, scene_ch,
                       fwd_vars, pub_vars>>

\* draws: the vectors of random values the step may draw
CarModeCalculatorStep(draws) ==
    /\ Alive("CarModeCalculator")
    /\ arbiter_steps < MaxArbiterSteps
    /\ arbiter_steps' = arbiter_steps + 1
    /\ IF scene_ch = None
       THEN CarModeCalculatorNoScene
       ELSE \E uninit_ok \in BOOLEAN, send_ok \in BOOLEAN, r \in draws :
                CarModeCalculatorOnScene(scene_ch[1], uninit_ok, send_ok, r)

----------------------------------------------------------------------------
(* CarDataPublisher *)

CarDataPublisherStartup ==
    /\ ~fwd_writer
    /\ fwd_writer' = TRUE
    /\ fwd_participant' = TRUE
    /\ obs' = Obs("CarDataPublisher startup", FALSE, "", FALSE, TRUE)
    /\ UNCHANGED <<now, sensor_vars, panicked, kv_vars, channel_vars, arbiter_vars, arbiter_ghost, pub_vars,
                   last_published_mode, dds_car_data, dds_last_result, fwd_reads>>

\* a slip: shutdown drops the participant and keeps the writer
CarDataPublisherShutdownKeepsWriter ==
    /\ fwd_writer
    /\ fwd_participant' = FALSE
    /\ obs' = Obs("CarDataPublisher shutdown", FALSE, "", FALSE, TRUE)
    /\ UNCHANGED <<now, sensor_vars, panicked, kv_vars, channel_vars, arbiter_vars,
                   arbiter_ghost, pub_vars, fwd_writer, last_published_mode,
                   dds_car_data, dds_last_result, fwd_reads>>

CarDataPublisherShutdown ==
    /\ fwd_writer
    /\ fwd_writer' = FALSE
    /\ fwd_participant' = FALSE
    /\ obs' = Obs("CarDataPublisher shutdown", FALSE, "", FALSE, TRUE)
    /\ UNCHANGED <<now, sensor_vars, panicked, kv_vars, channel_vars, arbiter_vars, arbiter_ghost, pub_vars,
                   last_published_mode, dds_car_data, dds_last_result, fwd_reads>>

CarDataPublisherNoData ==
    /\ obs' = Obs("CarDataPublisher", FALSE, "", FALSE, TRUE)
    /\ UNCHANGED <<now, sensor_vars, panicked, kv_vars, channel_vars, arbiter_vars, arbiter_ghost, pub_vars,
                   fwd_vars>>

CarDataPublisherOnData(car_data, write_ok) ==
    LET should_publish == ShouldPublish(last_published_mode, car_data.driving_mode)
        writes == should_publish /\ fwd_writer
    IN  /\ dds_car_data' = IF writes
                           THEN Append(dds_car_data, car_data.driving_mode)
                           ELSE dds_car_data
        /\ dds_last_result' = IF writes
                              THEN (IF write_ok THEN "ok" ELSE "err")
                              ELSE dds_last_result
        /\ last_published_mode' =
               IF writes
               THEN AfterWrite(last_published_mode, car_data.driving_mode, write_ok)
               ELSE last_published_mode
        /\ fwd_reads' = IF fwd_writer
                        THEN Append(fwd_reads, car_data.driving_mode)
                        ELSE fwd_reads
        /\ obs' = Obs("CarDataPublisher", TRUE, car_data.driving_mode, writes,
                      writes => write_ok)
        /\ UNCHANGED <<now, sensor_vars, panicked, kv_vars, channel_vars, arbiter_vars, arbiter_ghost, pub_vars,
                       fwd_writer, fwd_participant>>

CarDataPublisherStep ==
    /\ Alive("CarDataPublisher")
    /\ Len(fwd_reads) < MaxFwdReads
    /\ IF car_data_ch = None
       THEN CarDataPublisherNoData
       ELSE \E write_ok \in BOOLEAN :
                CarDataPublisherOnData(car_data_ch[1], write_ok)

----------------------------------------------------------------------------
(* AutonomousModePublisher, ManualModePublisher, EmergencyModePublisher *)

ModePublisherStartup(m, name) ==
    /\ ~pub_writer[m]
    /\ pub_writer' = [pub_writer EXCEPT ![m] = TRUE]
    /\ pub_participant' = [pub_participant EXCEPT ![m] = TRUE]
    /\ obs' = Obs(name, FALSE, "", FALSE, TRUE)
    /\ UNCHANGED <<now, sensor_vars, panicked, kv_vars, channel_vars, arbiter_vars, arbiter_ghost, fwd_vars,
                   discovery_counter, dds_mode_data, pub_last>>

AutonomousModePublisherStartup ==
    ModePublisherStartup("autonomous", "AutonomousModePublisher startup")
ManualModePublisherStartup ==
    ModePublisherStartup("manual", "ManualModePublisher startup")
EmergencyModePublisherStartup ==
    ModePublisherStartup("emergency", "EmergencyModePublisher startup")

\* shutdown of a mode publisher
ModePublisherShutdown(m, name) ==
    /\ pub_writer[m]
    /\ pub_writer' = [pub_writer EXCEPT ![m] = FALSE]
    /\ pub_participant' = [pub_participant EXCEPT ![m] = FALSE]
    /\ obs' = Obs(name, FALSE, "", FALSE, TRUE)
    /\ UNCHANGED <<now, sensor_vars, panicked, kv_vars, channel_vars, arbiter_vars,
                   arbiter_ghost, fwd_vars, discovery_counter, dds_mode_data,
                   pub_last>>

AutonomousModePublisherShutdown ==
    ModePublisherShutdown("autonomous", "AutonomousModePublisher shutdown")
ManualModePublisherShutdown ==
    ModePublisherShutdown("manual", "ManualModePublisher shutdown")
EmergencyModePublisherShutdown ==
    ModePublisherShutdown("emergency", "EmergencyModePublisher shutdown")

\* a slip: a record written only on the step that finds the mode newly active
ModePublisherStepDedup(m, name, is_mode) ==
    /\ Alive(name)
    /\ discovery_counter[m] < MaxDiscovery
    /\ discovery_counter' = [discovery_counter EXCEPT ![m] = @ + 1]
    /\ \E write_ok \in BOOLEAN :
        LET writes == /\ is_mode /\ scene_ch # None /\ pub_writer[m]
                      /\ ~pub_last[m].active
        IN  /\ dds_mode_data' =
                   [dds_mode_data EXCEPT ![m] = IF writes THEN @ + 1 ELSE @]
            /\ obs' = Obs(name, scene_ch # None, m, writes, writes => write_ok)
            /\ pub_last' = [pub_last EXCEPT ![m] =
                   [path |-> DecisionPath(car_data_ch, scene_ch),
                    active |-> is_mode,
                    car_data |-> IF car_data_ch = None THEN None
                                 ELSE Some(car_data_ch[1].driving_mode),
                    scene |-> scene_ch # None,
                    wrote |-> writes]]
    /\ UNCHANGED <<now, sensor_vars, panicked, kv_vars, channel_vars, arbiter_vars, arbiter_ghost, fwd_vars,
                   pub_writer, pub_participant>>

\* the part of step shared by the three publishers, after the decision
ModePublisherStep(m, name, is_mode) ==
    /\ Alive(name)
    /\ discovery_counter[m] < MaxDiscovery
    /\ discovery_counter' = [discovery_counter EXCEPT ![m] = @ + 1]
    /\ \E write_ok \in BOOLEAN :
        LET writes == is_mode /\ scene_ch # None /\ pub_writer[m]
        IN  /\ dds_mode_data' =
                   [dds_mode_data EXCEPT ![m] = IF writes THEN @ + 1 ELSE @]
            /\ obs' = Obs(name, scene_ch # None, m, writes, writes => write_ok)
            /\ pub_last' = [pub_last EXCEPT ![m] =
                   [path |-> DecisionPath(car_data_ch, scene_ch),
                    active |-> is_mode,
                    car_data |-> IF car_data_ch = None THEN None
                                 ELSE Some(car_data_ch[1].driving_mode),
                    scene |-> scene_ch # None,
                    wrote |-> writes]]
    /\ UNCHANGED <<now, sensor_vars, panicked, kv_vars, channel_vars, arbiter_vars, arbiter_ghost, fwd_vars,
                   pub_writer, pub_participant>>

AutonomousModePublisherStep ==
    ModePublisherStep("autonomous", "AutonomousModePublisher",
                      IsAutonomousMode(car_data_ch, scene_ch))
ManualModePublisherStep ==
    ModePublisherStep("manual", "ManualModePublisher",
                      IsManualMode(car_data_ch, scene_ch))
EmergencyModePublisherStep ==
    ModePublisherStep("emergency", "EmergencyModePublisher",
                      IsEmergencyMode(car_data_ch, scene_ch))

----------------------------------------------------------------------------
(* Values arriving on a topic from the producer *)

ArbiterScenes ==
    { [num_people |-> 0, num_cars |-> 0, distance_obstacle |-> 250,
       distance_left_lane |-> 5, distance_right_lane |-> 9],
      [num_people |-> 0, num_cars |-> 6, distance_obstacle |-> 80,
       distance_left_lane |-> 5, distance_right_lane |-> 9],
      [num_people |-> 0, num_cars |-> 0, distance_obstacle |-> 30,
       distance_left_lane |-> 5, distance_right_lane |-> 9] }

\* NeuralNet sends a Scene on inferred-scene
SceneArrives ==
    \E scene \in ArbiterScenes :
        /\ scene_ch' = Some(scene)
        /\ obs' = Obs("inferred-scene", TRUE, "", TRUE, TRUE)
        /\ UNCHANGED <<now, sensor_vars, panicked, kv_vars, image_ch, scan_ch, car_data_ch, arbiter_vars,
                       arbiter_ghost, fwd_vars, pub_vars>>

\* CarModeCalculator sends a CarData on car-data
CarDataArrives ==
    \E m \in Modes :
        /\ car_data_ch' = Some([driving_mode |-> m])
        /\ obs' = Obs("car-data", TRUE, m, TRUE, TRUE)
        /\ UNCHANGED <<now, sensor_vars, panicked, kv_vars, image_ch, scan_ch, scene_ch, arbiter_vars,
                       arbiter_ghost, fwd_vars, pub_vars>>

----------------------------------------------------------------------------
(* The persistency service and its client *)

SpecialChars == {"<", ">", "?", "{", "}"}

\* the strings the clients store
Values == {"", "v"}

\* what becomes of a call: the request does not reach the service; the
\* service answers; the service handles the request and the answer is lost
RpcOutcomes == {"unsent", "answered", "unanswered"}

Contains(key, chars) == \E i \in 1..Len(key) : key[i] \in chars

\* the protobuf KvsValue of a string
StringToKvsValue(value) ==
    [value |-> Some([tag |-> "StringValue", val |-> value])]

\* the rust_kvs value of a protobuf KvsValue
ProtoToKvsValue(proto) ==
    IF proto.value = None
    THEN [ok |-> FALSE, value |-> [type |-> "Null", val |-> ""]]
    ELSE LET v == proto.value[1]
         IN  [ ok |-> TRUE,
               value |->
                 CASE v.tag = "StringValue" -> [type |-> "String", val |-> v.val]
                   [] v.tag = "I32Value" -> [type |-> "I32", val |-> v.val]
                   [] v.tag = "BooleanValue" -> [type |-> "Boolean", val |-> v.val]
                   [] v.tag = "NullValue" -> [type |-> "Null", val |-> ""]
                   [] v.tag = "ArrayValue" -> [type |-> "Array", val |-> v.val] ]

\* the protobuf KvsValue of a rust_kvs value
KvsValueToProto(value) ==
    [ value |->
        Some(CASE value.type = "String" -> [tag |-> "StringValue", val |-> value.val]
               [] value.type = "I32" -> [tag |-> "I32Value", val |-> value.val]
               [] value.type = "Boolean" -> [tag |-> "BooleanValue", val |-> value.val]
               [] value.type = "Null" -> [tag |-> "NullValue", val |-> ""]
               [] value.type = "Array" -> [tag |-> "ArrayValue", val |-> value.val]) ]

\* the string the client returns for a protobuf KvsValue
KvsValueToString(proto) ==
    IF proto.value = None
    THEN [result |-> "Conversion", value |-> ""]
    ELSE LET v == proto.value[1]
         IN  CASE v.tag = "StringValue" -> [result |-> "Ok", value |-> v.val]
               [] v.tag = "I32Value" -> [result |-> "Ok", value |-> ToString(v.val)]
               [] v.tag = "BooleanValue" ->
                    [result |-> "Ok", value |-> IF v.val THEN "true" ELSE "false"]
               [] v.tag = "NullValue" -> [result |-> "Ok", value |-> "null"]
               [] v.tag = "ArrayValue" -> [result |-> "Conversion", value |-> ""]

\* a slip: a key that is present keeps its value
SetValueKeepFirst(store, key, value, kvs_ok) ==
    IF value = None THEN [success |-> FALSE, store |-> store]
    ELSE LET converted == ProtoToKvsValue(value[1])
         IN  IF converted.ok /\ kvs_ok
             THEN [ success |-> TRUE,
                    store |-> IF store[key] # None THEN store
                              ELSE [store EXCEPT ![key] = Some(converted.value)] ]
             ELSE [success |-> FALSE, store |-> store]

\* the service's set_value: the answer and the store after it; kvs_ok: the
\* key-value store accepts the value
SetValue(store, key, value, kvs_ok) ==
    IF value = None THEN [success |-> FALSE, store |-> store]
    ELSE LET converted == ProtoToKvsValue(value[1])
         IN  IF converted.ok /\ kvs_ok
             THEN [ success |-> TRUE,
                    store |-> [store EXCEPT ![key] = Some(converted.value)] ]
             ELSE [success |-> FALSE, store |-> store]

\* a slip: an absent key reads as the empty string
GetValueOrDefault(store, key) ==
    IF store[key] # None
    THEN [success |-> TRUE, value |-> Some(KvsValueToProto(store[key][1]))]
    ELSE [success |-> TRUE, value |-> Some(StringToKvsValue(""))]

\* the service's get_value
GetValue(store, key) ==
    IF store[key] # None
    THEN [success |-> TRUE, value |-> Some(KvsValueToProto(store[key][1]))]
    ELSE [success |-> FALSE, value |-> None]

\* a slip: the service answers success and keeps the key
RemoveKeyKeeps(store, key) ==
    IF store[key] # None
    THEN [success |-> TRUE, store |-> store]
    ELSE [success |-> FALSE, store |-> store]

\* the service's remove_key
RemoveKey(store, key) ==
    IF store[key] # None
    THEN [success |-> TRUE, store |-> [store EXCEPT ![key] = None]]
    ELSE [success |-> FALSE, store |-> store]

\* str::starts_with
StartsWith(key, prefix) ==
    Len(prefix) <= Len(key) /\ SubSeq(key, 1, Len(prefix)) = prefix

\* a slip: the service returns every key
ServiceGetAllWithPrefixNoFilter(store, prefix, keys_ok) ==
    IF keys_ok
    THEN [ success |-> TRUE,
           key_values |->
             { [key |-> k, value |-> KvsValueToProto(store[k][1])] :
                 k \in {x \in DOMAIN store : store[x] # None} } ]
    ELSE [success |-> FALSE, key_values |-> {}]

\* the service's get_all_with_prefix; keys_ok: kvs.get_all_keys returns Ok
ServiceGetAllWithPrefix(store, prefix, keys_ok) ==
    IF keys_ok
    THEN [ success |-> TRUE,
           key_values |->
             { [key |-> k, value |-> KvsValueToProto(store[k][1])] :
                 k \in {x \in DOMAIN store :
                          store[x] # None /\ StartsWith(x, prefix)} } ]
    ELSE [success |-> FALSE, key_values |-> {}]

Reply(op, key, result, value) ==
    [op |-> op, key |-> key, result |-> result, value |-> value]

\* PersistencyClient::put
Put(key, value) ==
    /\ IF Len(key) > key_length_limit \/ Contains(key, SpecialChars)
       THEN /\ reply' = Reply("put", key, "InvalidArgs", "")
            /\ UNCHANGED <<kvs, put_log, del_log, cleared>>
       ELSE \E rpc \in RpcOutcomes, kvs_ok \in BOOLEAN :
              LET response == SetValue(kvs, key, Some(StringToKvsValue(value)),
                                       kvs_ok)
                  served == rpc # "unsent"
              IN  /\ kvs' = IF served THEN response.store ELSE kvs
                  /\ reply' = Reply("put", key,
                                    IF rpc # "answered" THEN "Grpc"
                                    ELSE IF response.success THEN "Ok"
                                    ELSE "InvalidArgs", "")
                  /\ put_log' =
                       IF served /\ response.success
                       THEN [put_log EXCEPT
                               ![key] = IF rpc = "answered" THEN Some(value)
                                        ELSE None]
                       ELSE put_log
                  /\ del_log' = IF served /\ response.success
                                THEN [del_log EXCEPT ![key] = FALSE]
                                ELSE del_log
                  /\ cleared' = IF served /\ response.success THEN {}
                                ELSE cleared
    /\ UNCHANGED <<now, channel_vars, arbiter_vars, fwd_vars, pub_vars,
                   arbiter_ghost, sensor_vars, sched_vars, panicked,
                   obs, client_vars>>

\* PersistencyClient::get
Get(key) ==
    /\ IF key = <<>> \/ Len(key) > key_length_limit \/ Contains(key, SpecialChars)
       THEN reply' = Reply("get", key, "InvalidArgs", "")
       ELSE \E rpc \in RpcOutcomes :
              LET response == GetValue(kvs, key)
                  converted == KvsValueToString(response.value[1])
              IN  reply' =
                    IF rpc # "answered" THEN Reply("get", key, "Grpc", "")
                    ELSE IF response.success /\ response.value # None
                    THEN Reply("get", key, converted.result, converted.value)
                    ELSE Reply("get", key, "NotFound", "")
    /\ UNCHANGED <<kvs, put_log, del_log, cleared>>
    /\ UNCHANGED <<now, channel_vars, arbiter_vars, fwd_vars, pub_vars,
                   arbiter_ghost, sensor_vars, sched_vars, panicked,
                   obs, client_vars>>

\* what one call of PersistencyClient::delete returns and the store after it
DeleteCall(store, key, rpc) ==
    IF Len(key) > key_length_limit \/ Contains(key, SpecialChars)
    THEN [result |-> "InvalidArgs", store |-> store]
    ELSE LET response == RemoveKey(store, key)
         IN  [ result |-> IF rpc # "answered" THEN "Grpc"
                          ELSE IF response.success THEN "Ok"
                          ELSE "InvalidArgs",
               store |-> IF rpc # "unsent" THEN response.store ELSE store ]

\* the logs after the store went from store to after, deletes of the keys
\* in succeeded having returned Ok
PutLogAfter(store, after) ==
    [k \in DOMAIN store |-> IF after[k] # store[k] THEN None ELSE put_log[k]]

DelLogAfter(store, after, succeeded) ==
    [k \in DOMAIN store |-> IF k \in succeeded THEN TRUE
                    ELSE IF after[k] # store[k] THEN FALSE
                    ELSE del_log[k]]

\* PersistencyClient::delete
Delete(key) ==
    /\ \E rpc \in RpcOutcomes :
          LET call == DeleteCall(kvs, key, rpc)
          IN  /\ kvs' = call.store
              /\ reply' = Reply("delete", key, call.result, "")
              /\ put_log' = PutLogAfter(kvs, call.store)
              /\ del_log' = DelLogAfter(kvs, call.store,
                                        IF call.result = "Ok" THEN {key} ELSE {})
              /\ UNCHANGED cleared
    /\ UNCHANGED <<now, channel_vars, arbiter_vars, fwd_vars, pub_vars,
                   arbiter_ghost, sensor_vars, sched_vars, panicked,
                   obs, client_vars>>

\* what one call of PersistencyClient::get_all_with_prefix returns: the
\* pairs whose value converts to a string, the others skipped
GetAllWithPrefixCall(store, prefix, rpc, keys_ok) ==
    LET response == ServiceGetAllWithPrefix(store, prefix, keys_ok)
    IN  IF rpc # "answered" THEN [result |-> "Grpc", pairs |-> {}]
        ELSE IF response.success
        THEN [ result |-> "Ok",
               pairs |-> { [key |-> kv.key,
                            value |-> KvsValueToString(kv.value).value] :
                           kv \in { x \in response.key_values :
                                      KvsValueToString(x.value).result = "Ok" } } ]
        ELSE [result |-> "InvalidArgs", pairs |-> {}]

\* PersistencyClient::get_all_with_prefix
GetAllWithPrefix(prefix) ==
    /\ \E rpc \in RpcOutcomes, keys_ok \in BOOLEAN :
          LET call == GetAllWithPrefixCall(kvs, prefix, rpc, keys_ok)
          IN  reply' = Reply("get_all_with_prefix", prefix, call.result,
                             call.pairs)
    /\ UNCHANGED <<kvs, put_log, del_log, cleared>>
    /\ UNCHANGED <<now, channel_vars, arbiter_vars, fwd_vars, pub_vars,
                   arbiter_ghost, sensor_vars, sched_vars, panicked,
                   obs, client_vars>>

\* the loop of delete_all_with_prefix over the keys still to delete, in any
\* order (the pairs come from a HashMap): the outcomes it can end in, the
\* first delete that returns an error ending it
RECURSIVE DeleteEach(_, _, _)
DeleteEach(store, keys, succeeded) ==
    IF keys = {}
    THEN { [result |-> "Ok", store |-> store, succeeded |-> succeeded] }
    ELSE UNION { UNION { LET call == DeleteCall(store, k, rpc)
                         IN  IF call.result = "Ok"
                             THEN DeleteEach(call.store, keys \ {k},
                                             succeeded \cup {k})
                             ELSE { [ result |-> call.result,
                                      store |-> call.store,
                                      succeeded |-> succeeded ] } :
                         rpc \in RpcOutcomes } :
                 k \in keys }

\* a slip: the loop stops after its first delete
DeleteAllWithPrefixCallFirstOnly(store, prefix, rpc, keys_ok) ==
    LET listed == GetAllWithPrefixCall(store, prefix, rpc, keys_ok)
        keys == { kv.key : kv \in listed.pairs }
    IN  IF listed.result # "Ok"
        THEN { [result |-> listed.result, store |-> store, succeeded |-> {}] }
        ELSE IF keys = {}
        THEN { [result |-> "Ok", store |-> store, succeeded |-> {}] }
        ELSE UNION { DeleteEach(store, {k}, {}) : k \in keys }

\* the outcomes of one call of PersistencyClient::delete_all_with_prefix
DeleteAllWithPrefixCall(store, prefix, rpc, keys_ok) ==
    LET listed == GetAllWithPrefixCall(store, prefix, rpc, keys_ok)
    IN  IF listed.result # "Ok"
        THEN { [result |-> listed.result, store |-> store, succeeded |-> {}] }
        ELSE DeleteEach(store, { kv.key : kv \in listed.pairs }, {})

\* PersistencyClient::delete_all_with_prefix
DeleteAllWithPrefix(prefix) ==
    /\ \E rpc \in RpcOutcomes, keys_ok \in BOOLEAN :
          \E call \in DeleteAllWithPrefixCall(kvs, prefix, rpc, keys_ok) :
              /\ kvs' = call.store
              /\ reply' = Reply("delete_all_with_prefix", prefix, call.result, "")
              /\ put_log' = PutLogAfter(kvs, call.store)
              /\ del_log' = DelLogAfter(kvs, call.store, call.succeeded)
              /\ cleared' = IF call.result = "Ok" THEN cleared \cup {prefix}
                            ELSE cleared
    /\ UNCHANGED <<now, channel_vars, arbiter_vars, fwd_vars, pub_vars,
                   arbiter_ghost, sensor_vars, sched_vars, panicked,
                   obs, client_vars>>

\* the values another client of the service stores: an array
ForeignValues == { [value |-> Some([tag |-> "ArrayValue", val |-> <<>>])] }

\* a SetValueRequest of another client of the service is handled
SetValueRequestArrives(key, proto) ==
    /\ LET response == SetValue(kvs, key, Some(proto), TRUE)
       IN  /\ kvs' = response.store
           /\ put_log' = [put_log EXCEPT ![key] = None]
           /\ del_log' = [del_log EXCEPT ![key] = FALSE]
           /\ cleared' = {}
           /\ reply' = Reply("set_value", key,
                             IF response.success THEN "Ok" ELSE "InvalidArgs", "")
    /\ UNCHANGED <<now, channel_vars, arbiter_vars, fwd_vars, pub_vars,
                   arbiter_ghost, sensor_vars, sched_vars, panicked,
                   obs, client_vars>>

----------------------------------------------------------------------------
(* get_client: the global client and its initialisation *)

\* the errors a connection attempt can return
ConnectErrors == {"refused", "timeout"}

\* a slip: one attempt too many
RetryAgainInclusive(attempt) == attempt <= MAX_RETRIES

\* the loop goes on: while attempt < MAX_RETRIES
RetryAgain(attempt) == attempt < MAX_RETRIES

\* get_client is called: the client in the cell is returned, or the
\* initialisation starts with attempt = 0 and no error
GetClientCall ==
    /\ init_call.pc \in {"idle", "returned"}
    /\ init_log.calls < MaxCalls
    /\ IF CLIENT
       THEN /\ init_call' = [pc |-> "returned", attempt |-> 0, last_error |-> None]
            /\ init_log' = [calls |-> init_log.calls + 1, outcomes |-> <<>>,
                            slept |-> 0, result |-> "Ok"]
       ELSE /\ init_call' =
                 [ pc |-> IF RetryAgain(0) THEN "connect" ELSE "returned",
                   attempt |-> 0, last_error |-> None ]
            /\ init_log' = [calls |-> init_log.calls + 1, outcomes |-> <<>>,
                            slept |-> 0,
                            result |-> IF RetryAgain(0) THEN "pending"
                                       ELSE "InvalidArgs"]
    /\ UNCHANGED <<CLIENT, now, channel_vars, arbiter_vars, fwd_vars, pub_vars,
                   arbiter_ghost, sensor_vars, sched_vars, panicked,
                   obs, kvs, put_log,
                   del_log, cleared, reply>>

\* PersistencyClient::new() returns: the client, which is stored in the cell
\* and returned, or an error, after which the loop sleeps, or, with the
\* attempts used up, get_client returns the last error and the cell stays
\* empty
Connect ==
    /\ init_call.pc = "connect"
    /\ \/ /\ CLIENT' = TRUE
          /\ init_call' = [init_call EXCEPT !.pc = "returned"]
          /\ init_log' = [init_log EXCEPT
                            !.outcomes = Append(@, "Ok"), !.result = "Ok"]
       \/ \E err \in ConnectErrors :
             LET attempt == init_call.attempt + 1
             IN  /\ init_call' =
                       [ pc |-> IF RetryAgain(attempt) THEN "sleep"
                                ELSE "returned",
                         attempt |-> attempt, last_error |-> Some(err) ]
                 /\ init_log' = [init_log EXCEPT
                                   !.outcomes = Append(@, err),
                                   !.result = IF RetryAgain(attempt) THEN "pending"
                                              ELSE err]
                 /\ UNCHANGED CLIENT
    /\ UNCHANGED <<now, channel_vars, arbiter_vars, fwd_vars, pub_vars,
                   arbiter_ghost, sensor_vars, sched_vars, panicked,
                   obs, kvs, put_log,
                   del_log, cleared, reply>>

\* the sleep of RETRY_DELAY_MS between two attempts is over
Sleep ==
    /\ init_call.pc = "sleep"
    /\ init_call' = [init_call EXCEPT !.pc = "connect"]
    /\ init_log' = [init_log EXCEPT !.slept = @ + RETRY_DELAY_MS]
    /\ UNCHANGED <<CLIENT, now, channel_vars, arbiter_vars, fwd_vars, pub_vars,
                   arbiter_ghost, sensor_vars, sched_vars, panicked,
                   obs, kvs, put_log,
                   del_log, cleared, reply>>

----------------------------------------------------------------------------
(* The configured activities on their workers *)

\* an activity may start: it has not run in this cycle, is not running, and
\* the activities it depends on have run
StartActivity(w, a) ==
    /\ a \in Range(AgentAssignments[w])
    /\ sched_running[w] = None
    /\ a \notin sched_done
    /\ \A v \in Workers : sched_running[v] # Some(a)
    /\ ActivityDependencies(a) \subseteq sched_done
    /\ sched_running' = [sched_running EXCEPT ![w] = Some(a)]
    /\ obs' = Obs("start", FALSE, "", FALSE, TRUE)
    /\ UNCHANGED <<sched_done, now, channel_vars, arbiter_vars, fwd_vars, pub_vars,
                   arbiter_ghost, sensor_vars, panicked, kvs, put_log, del_log,
                   cleared, reply, client_vars>>

\* the step of the activity that worker w is running returns
FinishActivity(w) ==
    /\ sched_running[w] # None
    /\ sched_done' = sched_done \cup {sched_running[w][1]}
    /\ sched_running' = [sched_running EXCEPT ![w] = None]
    /\ obs' = Obs("finish", FALSE, "", FALSE, TRUE)
    /\ UNCHANGED <<now, channel_vars, arbiter_vars, fwd_vars, pub_vars,
                   arbiter_ghost, sensor_vars, panicked, kvs, put_log, del_log,
                   cleared, reply, client_vars>>

\* every activity has run: the next cycle starts
NextTaskChain ==
    /\ sched_done = ActivityIds
    /\ sched_done' = {}
    /\ obs' = Obs("cycle", FALSE, "", FALSE, TRUE)
    /\ UNCHANGED <<sched_running, now, channel_vars, arbiter_vars, fwd_vars,
                   pub_vars, arbiter_ghost, sensor_vars, panicked, kvs, put_log,
                   del_log, cleared, reply, client_vars>>

----------------------------------------------------------------------------
(* Specifications *)

CalmDraws == { [i \in 1..6 |-> 4000], [i \in 1..6 |-> 0] }
\* draws of an arbiter step in which no walk takes a step
SteadyDraws == { [i \in 1..6 |-> 4000] }

\* the arbiter fed with Scenes at chosen instants
NextArbiter ==
    /\ \/ Tick
       \/ SceneArrives
       \/ CarModeCalculatorStep(CalmDraws)
    /\ UNCHANGED stepped

SpecArbiter == Init /\ [][NextArbiter]_vars

\* the forwarder fed with CarData
NextForwarder ==
    /\ \/ CarDataArrives
       \/ CarDataPublisherStartup
       \/ CarDataPublisherStep
       \/ CarDataPublisherShutdown
    /\ UNCHANGED stepped

SpecForwarder == Init /\ [][NextForwarder]_vars

\* every startup is done before the first step of any activity
PublishersStarted == \A m \in Modes : pub_writer[m]

\* no publisher other than that of mode m has stepped
OnlyPublisher(m) == \A other \in Modes \ {m} : discovery_counter[other] = 0

\* the mode publishers, all started before the first step, fed with Scenes
\* and with CarData (which the arbiter writes only after it has read a Scene);
\* the publishers have no field in common: a run steps one of the three
NextPublishers ==
    /\ \/ (PublishersStarted /\ SceneArrives)
       \/ (scene_ch # None /\ CarDataArrives)
       \/ AutonomousModePublisherStartup
       \/ ManualModePublisherStartup
       \/ EmergencyModePublisherStartup
       \/ (PublishersStarted /\ OnlyPublisher("autonomous")
           /\ AutonomousModePublisherStep)
       \/ (PublishersStarted /\ OnlyPublisher("manual")
           /\ ManualModePublisherStep)
       \/ (PublishersStarted /\ OnlyPublisher("emergency")
           /\ EmergencyModePublisherStep)
    /\ UNCHANGED stepped

SpecPublishers == Init /\ [][NextPublishers]_vars

\* no mode publisher has started or stepped
ForwarderOnly == \A m \in Modes : ~pub_writer[m] /\ discovery_counter[m] = 0

\* neither the forwarder nor another mode publisher has started or stepped
PublisherOnly(m) ==
    /\ ~fwd_writer
    /\ fwd_reads = <<>>
    /\ OnlyPublisher(m)
    /\ \A other \in Modes \ {m} : ~pub_writer[other]

\* the forwarder and the mode publishers started, stepped and shut down,
\* again and again, on the Scenes and CarData they are fed; the four have no
\* field in common: a run takes one of them through its life
NextLifecycle ==
    /\ \/ SceneArrives
       \/ (scene_ch # None /\ CarDataArrives)
       \/ (ForwarderOnly /\ CarDataPublisherStartup)
       \/ (ForwarderOnly /\ CarDataPublisherStep)
       \/ (ForwarderOnly /\ CarDataPublisherShutdown)
       \/ (PublisherOnly("autonomous") /\ AutonomousModePublisherStartup)
       \/ (PublisherOnly("autonomous") /\ AutonomousModePublisherStep)
       \/ (PublisherOnly("autonomous") /\ AutonomousModePublisherShutdown)
       \/ (PublisherOnly("manual") /\ ManualModePublisherStartup)
       \/ (PublisherOnly("manual") /\ ManualModePublisherStep)
       \/ (PublisherOnly("manual") /\ ManualModePublisherShutdown)
       \/ (PublisherOnly("emergency") /\ EmergencyModePublisherStartup)
       \/ (PublisherOnly("emergency") /\ EmergencyModePublisherStep)
       \/ (PublisherOnly("emergency") /\ EmergencyModePublisherShutdown)
    /\ UNCHANGED stepped

SpecLifecycle == Init /\ [][NextLifecycle]_vars

\* Scenes around the thresholds of the mode rule
SceneGrid ==
    { [num_people |-> p, num_cars |-> c, distance_obstacle |-> d,
       distance_left_lane |-> 5, distance_right_lane |-> 9] :
      p \in {0, 4, 5}, c \in {0, 5, 6},
      d \in {20, 30, 39, 40, 41, 59, 60, 61, 80, 400} }

InitModeRule == Built /\ scene_ch \in {Some(scene) : scene \in SceneGrid}

\* readings of the camera and of the radar: the camera nearer, the radar
\* nearer, both equal
ImageGrid ==
    { [num_people |-> p, num_cars |-> c, distance_obstacle |-> d] :
      p \in {0, 4}, c \in {3, 6}, d \in {15, 40, 100} }

ScanGrid ==
    { [distance_obstacle |-> d, error_margin |-> e] :
      d \in {15, 40, 250}, e \in {-10, 0, 9} }

\* Camera sends a CameraImage on the camera topic
ImageArrives ==
    \E image \in ImageGrid :
        /\ image_ch' = Some(image)
        /\ obs' = Obs("camera-front", TRUE, "", TRUE, TRUE)
        /\ UNCHANGED <<now, sensor_vars, panicked, kv_vars, scan_ch, scene_ch,
                       car_data_ch, arbiter_vars, arbiter_ghost, fwd_vars,
                       pub_vars>>

\* Radar sends a RadarScan on the radar topic
ScanArrives ==
    \E scan \in ScanGrid :
        /\ scan_ch' = Some(scan)
        /\ obs' = Obs("radar-front", TRUE, "", TRUE, TRUE)
        /\ UNCHANGED <<now, sensor_vars, panicked, kv_vars, image_ch, scene_ch,
                       car_data_ch, arbiter_vars, arbiter_ghost, fwd_vars,
                       pub_vars>>

\* NeuralNet fed with readings
NextFusion ==
    /\ \/ ImageArrives
       \/ ScanArrives
       \/ NeuralNetStep({4000})
    /\ UNCHANGED stepped

SpecFusion == Init /\ [][NextFusion]_vars

\* draws of one get_image: the walks below probability 1.0 keep their value;
\* every walk steps up; no walk steps (draw 100); every walk steps down by its
\* largest step
SensorCameraDraws ==
    { <<99, 0, 99, 0, 99, 0>>,
      <<0, 104, 0, 104, 0, 24010000>>,
      <<100, 0, 100, 0, 100, 0>>,
      <<0, 0, 0, 0, 0, 0>> }

\* draws of one get_scan: the distance drops by 10 m; it rises by 10 m; it is
\* kept (draw 100); it rises by 0.5 m
SensorRadarDraws ==
    { <<0, 0, 0>>, <<0, 20000, 10>>, <<100, 0, 20>>, <<0, 10500, 5>> }

\* Camera and Radar have no field and no topic in common: a run steps one of
\* the two, any number of times
NextSensors ==
    /\ \/ (obs.act \in {"build", "Camera"} /\ CameraStep(SensorCameraDraws))
       \/ (obs.act \in {"build", "Radar"} /\ RadarStep(SensorRadarDraws))
    /\ UNCHANGED stepped

SpecSensors == Init /\ [][NextSensors]_vars

\* a step of the arbiter that reads a Scene and whose write is accepted
DynamicsStep ==
    /\ Alive("CarModeCalculator")
    /\ scene_ch # None
    /\ arbiter_steps < MaxDynamicsSteps
    /\ arbiter_steps' = arbiter_steps + 1
    /\ \E r \in SteadyDraws : CarModeCalculatorOnScene(scene_ch[1], TRUE, TRUE, r)

\* the arbiter stepped many times in a row on the Scenes it is fed
NextDynamics ==
    /\ \/ Tick
       \/ SceneArrives
       \/ DynamicsStep
    /\ UNCHANGED stepped

SpecDynamics == Init /\ [][NextDynamics]_vars

\* draws of an arbiter step in which only the steering walk may take a step:
\* none, down by 2.0, up by 2.0, down by 1.999
SteeringDraws ==
    { <<4000, 4000, 4000, 4000, 4000, 4000>>,
      <<4000, 4000, 4000, 4000, 0, 0>>,
      <<4000, 4000, 4000, 4000, 0, 4000>>,
      <<4000, 4000, 4000, 4000, 0, 1>> }

\* a step of the arbiter, with or without a Scene, whose write is accepted
SteeringStep ==
    /\ Alive("CarModeCalculator")
    /\ arbiter_steps < MaxSteeringSteps
    /\ arbiter_steps' = arbiter_steps + 1
    /\ IF scene_ch = None
       THEN CarModeCalculatorNoScene
       ELSE \E r \in SteeringDraws :
                CarModeCalculatorOnScene(scene_ch[1], TRUE, TRUE, r)

\* the arbiter stepped on the Scenes it is fed, its steering walking
NextSteering ==
    /\ \/ SceneArrives
       \/ SteeringStep
    /\ UNCHANGED stepped

SpecSteering == Init /\ [][NextSteering]_vars

\* the configured activities run cycle after cycle on their workers
NextSchedule ==
    /\ \/ \E w \in Workers, a \in ActivityIds : StartActivity(w, a)
       \/ \E w \in Workers : FinishActivity(w)
       \/ NextTaskChain
    /\ UNCHANGED stepped

SpecSchedule == Init /\ [][NextSchedule]_vars

\* the feo_demo Camera stepping
NextFeoDemo ==
    /\ FeoDemoCameraStep
    /\ UNCHANGED stepped

SpecFeoDemo == Init /\ [][NextFeoDemo]_vars

\* get_client called again and again; the runtime polls the initialisation
\* until it returns: a connection attempt ends, a sleep ends
NextGetClient ==
    /\ \/ GetClientCall
       \/ Connect
       \/ Sleep
    /\ UNCHANGED stepped

SpecGetClient ==
    Init /\ [][NextGetClient]_vars
         /\ WF_vars(Connect /\ UNCHANGED stepped)
         /\ WF_vars(Sleep /\ UNCHANGED stepped)

\* the prefixes the client lists and deletes
Prefixes == { <<>>, <<"a">>, <<"a", "b">> }

\* a client of the persistency service putting, getting and deleting keys
NextPersistency ==
    /\ \/ \E key \in Keys :
             \/ \E value \in Values : Put(key, value)
             \/ Get(key)
             \/ Delete(key)
       \/ \E prefix \in Prefixes :
             \/ GetAllWithPrefix(prefix)
             \/ DeleteAllWithPrefix(prefix)
       \/ \E proto \in ForeignValues : SetValueRequestArrives(<<"a", "b">>, proto)
    /\ UNCHANGED stepped

SpecPersistency == Init /\ [][NextPersistency]_vars

\* the mode rule of the arbiter and of the publishers applied to one Scene
NextModeRule ==
    /\ \/ (arbiter_steps = 0 /\ CarModeCalculatorStep(CalmDraws))
       \/ (discovery_counter["autonomous"] = 0 /\ AutonomousModePublisherStep)
       \/ (discovery_counter["manual"] = 0 /\ ManualModePublisherStep)
       \/ (discovery_counter["emergency"] = 0 /\ EmergencyModePublisherStep)
    /\ UNCHANGED stepped

SpecModeRule == InitModeRule /\ [][NextModeRule]_vars

----------------------------------------------------------------------------
(* The pipeline run in cycles under activity_dependencies *)

\* for each activity, the activities it needs to wait for
Dependencies(a) ==
    CASE a = "Camera" -> {}
      [] a = "Radar" -> {}
      [] a = "NeuralNet" -> {"Camera", "Radar"}
      [] a = "CarModeCalculator" -> {"NeuralNet"}
      [] a = "CarDataPublisher" -> {"CarModeCalculator"}
      [] a = "AutonomousModePublisher" -> {"CarDataPublisher"}
      [] a = "ManualModePublisher" -> {"CarDataPublisher"}
      [] a = "EmergencyModePublisher" -> {"CarDataPublisher"}

Started == fwd_writer /\ \A m \in Modes : pub_writer[m]

\* a may step: every startup is done, a has not stepped in this cycle and
\* the activities it waits for have
Ready(a) == Started /\ a \notin stepped /\ Dependencies(a) \subseteq stepped

\* draws of get_image in the pipeline: nothing changes; the obstacle comes
\* 8 m closer
PipelineCameraDraws == { <<99, 0, 99, 0, 99, 0>>, <<99, 0, 99, 0, 0, 0>> }
\* draws of get_scan in the pipeline: the distance is kept; it drops by 10 m
PipelineRadarDraws == { <<100, 0, 10>>, <<0, 0, 0>> }

\* clock readings at which a cycle starts
CycleInstants == {0, 15, 30}

\* all activities have stepped: the next cycle starts, later on the clock
EndCycle ==
    /\ stepped = Activities
    /\ \A m \in Modes : discovery_counter[m] < MaxDiscovery
    /\ stepped' = {}
    /\ \E t \in CycleInstants : t >= now /\ now' = t
    /\ obs' = Obs("cycle", FALSE, "", FALSE, TRUE)
    /\ UNCHANGED <<channel_vars, arbiter_vars, fwd_vars, pub_vars, arbiter_ghost,
                       sensor_vars, panicked, kv_vars>>

Next ==
    \/ (CarDataPublisherStartup /\ UNCHANGED stepped)
    \/ (AutonomousModePublisherStartup /\ UNCHANGED stepped)
    \/ (ManualModePublisherStartup /\ UNCHANGED stepped)
    \/ (EmergencyModePublisherStartup /\ UNCHANGED stepped)
    \/ (Ready("Camera") /\ CameraStep(PipelineCameraDraws)
        /\ stepped' = stepped \cup {"Camera"})
    \/ (Ready("Radar") /\ RadarStep(PipelineRadarDraws)
        /\ stepped' = stepped \cup {"Radar"})
    \/ (Ready("NeuralNet") /\ NeuralNetStep({4000})
        /\ stepped' = stepped \cup {"NeuralNet"})
    \/ (Ready("CarModeCalculator") /\ CarModeCalculatorStep(SteadyDraws)
        /\ stepped' = stepped \cup {"CarModeCalculator"})
    \/ (Ready("CarDataPublisher") /\ CarDataPublisherStep
        /\ stepped' = stepped \cup {"CarDataPublisher"})
    \/ (Ready("AutonomousModePublisher") /\ AutonomousModePublisherStep
        /\ stepped' = stepped \cup {"AutonomousModePublisher"})
    \/ (Ready("ManualModePublisher") /\ ManualModePublisherStep
        /\ stepped' = stepped \cup {"ManualModePublisher"})
    \/ (Ready("EmergencyModePublisher") /\ EmergencyModePublisherStep
        /\ stepped' = stepped \cup {"EmergencyModePublisher"})
    \/ EndCycle

Spec == Init /\ [][Next]_vars

----------------------------------------------------------------------------
(* Properties of CarModeCalculator *)

\* the instant of the last change of current_mode
LastChange == mode_changed_at[Len(mode_changed_at)]

\* the mode the spec's rule gives for a Scene: emergency first, then manual
RuleMode(scene) ==
    IF scene.distance_obstacle < 40 THEN "emergency"
    ELSE IF scene.distance_obstacle < 60 \/ scene.num_people > 4
            \/ scene.num_cars > 5
         THEN "manual"
         ELSE "autonomous"

\* the last step was a CarModeCalculator step that read a Scene
ArbiterRead == obs.act = "CarModeCalculator" /\ obs.read

\* C1: current_mode never changes to manual or autonomous at a step taken less
\* than 15 s after the previous change of current_mode; so a step in manual
\* mode, 1 s after manual was entered, keeps manual whatever the candidate.
C1_CooldownRespected ==
    [][ (current_mode' # current_mode /\ current_mode' # "emergency")
           => (mode_changed_at = <<>> \/ now - LastChange >= 15) ]_vars

\* an autonomous candidate read in manual mode 1 s after manual was entered
\* (by a change at least 15 s after the one before) has left the mode manual
C1_Witness ==
    /\ ArbiterRead
    /\ obs.cand = "autonomous"
    /\ current_mode = "manual"
    /\ Len(mode_changed_at) = 2
    /\ now - LastChange = 1

\* C2: a step that reads a Scene closer than 4.0 m ends in emergency mode,
\* however recently current_mode changed.
C2_EmergencyBypassesCooldown ==
    (ArbiterRead /\ scene_ch # None /\ scene_ch[1].distance_obstacle < 40)
        => /\ current_mode = "emergency"
           /\ obs.cand = "emergency"

\* emergency entered by the last step, 1 s after the previous change
C2_Witness ==
    /\ ArbiterRead
    /\ current_mode = "emergency"
    /\ Len(mode_changed_at) = 2
    /\ mode_changed_at[2] = now
    /\ now - mode_changed_at[1] = 1

\* C3: the candidate of a step that reads a Scene is emergency iff the
\* obstacle is closer than 4.0 m, else manual iff it is closer than 6.0 m or
\* there are more than 4 people or more than 5 cars, else autonomous; 3.0 m
\* gives emergency, (8.0 m, 6 cars) manual, (40.0 m, nobody) autonomous.
C3_CandidateRule ==
    ArbiterRead =>
        LET scene == scene_ch[1]
            d == scene.distance_obstacle
        IN  /\ (obs.cand = "emergency") <=> (d < 40)
            /\ (obs.cand = "manual") <=>
                   (d >= 40 /\ (d < 60 \/ scene.num_people > 4
                                \/ scene.num_cars > 5))
            /\ (obs.cand = "autonomous") <=>
                   (d >= 60 /\ scene.num_people <= 4 /\ scene.num_cars <= 5)
            /\ d = 30 => obs.cand = "emergency"
            /\ (d = 80 /\ scene.num_cars = 6) => obs.cand = "manual"
            /\ (d = 400 /\ scene.num_people = 0 /\ scene.num_cars = 0)
                   => obs.cand = "autonomous"

\* a Scene at 3.0 m with 5 people and 6 cars has given the emergency candidate
C3_Witness ==
    /\ ArbiterRead
    /\ scene_ch[1].distance_obstacle = 30
    /\ scene_ch[1].num_people = 5
    /\ scene_ch[1].num_cars = 6
    /\ obs.cand = "emergency"

\* C4: a step that reads a Scene and obtains the output sample writes a
\* CarData carrying current_mode as the step leaves it, also when the step's
\* candidate differs from the mode and was held back by the cooldown.
C4_CarDataEveryStep ==
    (ArbiterRead /\ obs.ok)
        => /\ obs.wrote
           /\ car_data_ch = Some([driving_mode |-> current_mode])

\* a step whose candidate was held back by the cooldown has written the
\* unchanged mode
C4_Witness ==
    /\ ArbiterRead
    /\ obs.cand # current_mode
    /\ mode_changed_at # <<>>
    /\ now - LastChange < 15
    /\ obs.wrote
    /\ car_data_ch = Some([driving_mode |-> current_mode])

----------------------------------------------------------------------------
(* Properties of CarDataPublisher *)

\* the number of runs of equal consecutive entries of a sequence
Runs(seq) ==
    Cardinality({ i \in 1..Len(seq) : i = 1 \/ seq[i] # seq[i - 1] })

\* the CarData on the topic differs from the mode last published, or nothing
\* was published yet
DiffersFromLast ==
    /\ car_data_ch # None
    /\ \/ last_published_mode = None
       \/ last_published_mode[1] # car_data_ch[1].driving_mode

\* C5: a step of the started forwarder calls the DDS writer iff a CarData is
\* available and its mode differs from last_published_mode (or none is set),
\* and it writes that mode; so the writes are as many as the runs of equal
\* consecutive modes read, and no two consecutive writes carry the same mode.
C5_PublishOnChange ==
    /\ [][ (obs'.act = "CarDataPublisher" /\ fwd_writer)
              => /\ (Len(dds_car_data') = Len(dds_car_data) + 1)
                        <=> DiffersFromLast
                 /\ \/ dds_car_data' = dds_car_data
                    \/ dds_car_data' =
                           Append(dds_car_data, car_data_ch[1].driving_mode) ]_vars
    /\ [](/\ Len(dds_car_data) = Runs(fwd_reads)
          /\ \A i \in 1..(Len(dds_car_data) - 1) :
                 dds_car_data[i] # dds_car_data[i + 1])

\* the reads A,A,A,B,B,A have given three writes: A, B, A
C5_Witness ==
    /\ fwd_reads = <<"autonomous", "autonomous", "autonomous",
                     "manual", "manual", "autonomous">>
    /\ dds_car_data = <<"autonomous", "manual", "autonomous">>

\* C6: a step whose DDS write returns Err still sets last_published_mode to
\* the mode it tried to write, and a later step that reads that same mode,
\* with no write in between, does not call the writer again.
C6_WriteErrorAdvances ==
    /\ [][ (obs'.act = "CarDataPublisher" /\ obs'.wrote /\ ~obs'.ok)
              => /\ last_published_mode' = Some(car_data_ch[1].driving_mode)
                 /\ dds_last_result' = "err" ]_vars
    /\ [][ (/\ dds_last_result = "err"
            /\ obs'.act = "CarDataPublisher"
            /\ car_data_ch # None
            /\ car_data_ch[1].driving_mode = dds_car_data[Len(dds_car_data)])
              => /\ dds_car_data' = dds_car_data
                 /\ ~obs'.wrote
                 /\ UNCHANGED last_published_mode ]_vars

\* after a failed write of a mode, the started forwarder has read that mode
\* again and has not written
C6_Witness ==
    /\ dds_last_result = "err"
    /\ fwd_writer
    /\ obs.act = "CarDataPublisher"
    /\ obs.read
    /\ ~obs.wrote
    /\ obs.cand = dds_car_data[Len(dds_car_data)]
    /\ last_published_mode = Some(obs.cand)

----------------------------------------------------------------------------
(* Properties of the mode publishers *)

PublisherName(m) ==
    CASE m = "autonomous" -> "AutonomousModePublisher"
      [] m = "manual" -> "ManualModePublisher"
      [] m = "emergency" -> "EmergencyModePublisher"

\* C7: the publisher of mode m that reads a CarData is active exactly when the
\* CarData carries m, whatever the Scene says; without a CarData it is active
\* exactly when the Scene rule gives m; without either it is inactive.
C7_CarDataBeforeScene ==
    \A m \in Modes :
        obs.act = PublisherName(m) =>
            /\ car_data_ch # None
                  => (pub_last[m].active <=> car_data_ch[1].driving_mode = m)
            /\ (car_data_ch = None /\ scene_ch # None)
                  => (pub_last[m].active <=> RuleMode(scene_ch[1]) = m)
            /\ (car_data_ch = None /\ scene_ch = None)
                  => ~pub_last[m].active

\* the emergency publisher has read a manual CarData next to a Scene at less
\* than 4.0 m and is inactive
C7_Witness ==
    /\ obs.act = "EmergencyModePublisher"
    /\ car_data_ch = Some([driving_mode |-> "manual"])
    /\ scene_ch # None
    /\ scene_ch[1].distance_obstacle < 40
    /\ ~pub_last["emergency"].active

\* the publisher of mode m decided its last step on the Scene
Fallback(m) == pub_last[m].path = "scene"

\* C8: decided on the Scene alone, the emergency publisher is active iff the
\* obstacle is closer than 4.0 m, the manual publisher iff it is not and the
\* obstacle is closer than 6.0 m or there are more than 4 people or more
\* than 5 cars, the autonomous publisher iff neither: exactly one of the
\* three, the one of the arbiter's candidate for that Scene.
C8_FallbackRule ==
    scene_ch # None =>
        LET scene == scene_ch[1]
            emergency == scene.distance_obstacle < 40
            manual == /\ ~emergency
                      /\ \/ scene.distance_obstacle < 60
                         \/ scene.num_people > 4
                         \/ scene.num_cars > 5
        IN  /\ Fallback("emergency")
                  => (pub_last["emergency"].active <=> emergency)
            /\ Fallback("manual")
                  => (pub_last["manual"].active <=> manual)
            /\ Fallback("autonomous")
                  => (pub_last["autonomous"].active <=> (~emergency /\ ~manual))
            /\ (\A m \in Modes : Fallback(m))
                  => Cardinality({m \in Modes : pub_last[m].active}) = 1
            /\ ArbiterRead
                  => \A m \in Modes :
                         Fallback(m) => (pub_last[m].active <=> obs.cand = m)

\* with no CarData and a Scene at 2.0 m the three publishers have stepped and
\* only the emergency publisher is active
C8_Witness ==
    /\ car_data_ch = None
    /\ scene_ch # None
    /\ scene_ch[1].distance_obstacle = 20
    /\ \A m \in Modes : Fallback(m)
    /\ pub_last["emergency"].active
    /\ ~pub_last["manual"].active
    /\ ~pub_last["autonomous"].active

\* C9: every step of a started publisher that finds its mode active writes
\* one record on its DDS topic, and so does the step that directly follows a
\* writing step of the same publisher, on the same CarData and Scene.
C9_NoDeduplication ==
    /\ [][ \A m \in Modes :
              (obs'.act = PublisherName(m) /\ pub_last'[m].active)
                  => dds_mode_data'[m] = dds_mode_data[m] + 1 ]_vars
    /\ [][ \A m \in Modes :
              (obs.act = PublisherName(m) /\ obs.wrote
               /\ obs'.act = PublisherName(m))
                  => /\ obs'.wrote
                     /\ dds_mode_data'[m] = dds_mode_data[m] + 1 ]_vars

\* the autonomous publisher has stepped twice and has written twice
C9_Witness ==
    /\ obs.act = "AutonomousModePublisher"
    /\ obs.wrote
    /\ discovery_counter["autonomous"] = 2
    /\ dds_mode_data["autonomous"] = 2

----------------------------------------------------------------------------
(* Properties of the pipeline *)

\* the activities that read a topic
Readers ==
    { "NeuralNet", "CarModeCalculator", "CarDataPublisher",
      "AutonomousModePublisher", "ManualModePublisher", "EmergencyModePublisher" }

\* the read that activity a needs for its output finds no value
NoInput(a) ==
    CASE a = "NeuralNet" -> image_ch = None \/ scan_ch = None
      [] a = "CarModeCalculator" -> scene_ch = None
      [] a = "CarDataPublisher" -> car_data_ch = None
      [] OTHER -> scene_ch = None

\* C10: a step of NeuralNet, CarModeCalculator, CarDataPublisher or a mode
\* publisher whose input read finds no value writes no topic and no DDS
\* record and leaves current_mode, last_mode_change_time, the speeds, the
\* steering angle, the brake force and last_published_mode as they were; the
\* step completes and the cycle goes on.
C10_NoInputNoEffect ==
    [][ \A a \in Readers :
           (obs'.act = a /\ NoInput(a))
               => /\ UNCHANGED <<image_ch, scan_ch, scene_ch, car_data_ch>>
                  /\ UNCHANGED <<dds_car_data, dds_mode_data, dds_last_result>>
                  /\ UNCHANGED <<current_mode, last_mode_change_time,
                                 target_speed, current_speed, steering_angle,
                                 brake_force, previous_published_mode,
                                 last_published_mode>>
                  /\ a \in stepped' ]_vars

\* a whole cycle in which the camera sent no image: every reader has stepped
\* without input
C10_Witness ==
    /\ stepped = Activities
    /\ image_ch = None
    /\ scene_ch = None
    /\ car_data_ch = None
    /\ dds_car_data = <<>>
    /\ \A m \in Modes : dds_mode_data[m] = 0 /\ discovery_counter[m] = 1

----------------------------------------------------------------------------
(* Properties of the sensor and fusion steps *)

\* the activities whose step sends a payload on a topic
Senders == { "Camera", "Radar", "NeuralNet", "CarModeCalculator" }

\* C11: a failed send of the payload in a step of Camera, Radar, NeuralNet
\* (scene fusion) or CarModeCalculator (mode arbiter) is never fatal: the
\* step returns with the write skipped and the component keeps running, so
\* none of the four is ever ended by a panic.
C11_SendFailureNotFatal == Senders \cap panicked = {}

\* C12 as stated: a NeuralNet step in which the camera read or the radar
\* read finds no value writes no Scene and leaves inferred-scene as it was,
\* without blocking or crashing; a step in which both reads find a value
\* produces a Scene.
C12_SceneWheneverInputs ==
    [][ obs'.act = "NeuralNet" =>
          /\ (image_ch = None \/ scan_ch = None)
                => /\ UNCHANGED scene_ch
                   /\ ~obs'.wrote
                   /\ "NeuralNet" \notin panicked'
                   /\ "NeuralNet" \in stepped'
          /\ (image_ch # None /\ scan_ch # None)
                => /\ scene_ch' # None
                   /\ obs'.wrote ]_vars

\* C12: a NeuralNet step in which the camera read or the radar read finds no
\* value writes no Scene and leaves inferred-scene as it was; the step
\* completes and NeuralNet keeps running; a step in which both reads find a
\* value puts a Scene on inferred-scene exactly when the output accepts the
\* write (the sample is obtained and sent), and leaves the topic as it was
\* otherwise.
C12_NoInputNoScene ==
    [][ obs'.act = "NeuralNet" =>
          /\ (image_ch = None \/ scan_ch = None)
                => /\ UNCHANGED scene_ch
                   /\ ~obs'.wrote
                   /\ "NeuralNet" \notin panicked'
                   /\ "NeuralNet" \in stepped'
          /\ (image_ch # None /\ scan_ch # None /\ obs'.ok)
                => /\ scene_ch' # None
                   /\ obs'.wrote
          /\ (image_ch # None /\ scan_ch # None /\ ~obs'.ok)
                => /\ UNCHANGED scene_ch
                   /\ ~obs'.wrote ]_vars

\* NeuralNet has just sent a Scene in the second cycle, after a first cycle in
\* which the camera sent no image and NeuralNet stepped without input
C12_Witness ==
    /\ obs.act = "NeuralNet"
    /\ obs.wrote
    /\ scene_ch # None
    /\ camera.scenario_timer = 1
    /\ \A m \in Modes : discovery_counter[m] = 1

\* C13: the Scene that NeuralNet sends has the smaller of the camera's and
\* the radar's distance_obstacle and the camera's num_people and num_cars,
\* whatever the radar's error_margin and whatever Scene was on the topic
\* before.
C13_SceneFromReadings ==
    [][ (obs'.act = "NeuralNet" /\ obs'.wrote)
          => LET c == image_ch[1]
                 r == scan_ch[1]
                 scene == scene_ch'[1]
             IN  /\ scene.distance_obstacle
                      = Min(c.distance_obstacle, r.distance_obstacle)
                 /\ scene.distance_obstacle
                      \in {c.distance_obstacle, r.distance_obstacle}
                 /\ scene.distance_obstacle <= c.distance_obstacle
                 /\ scene.distance_obstacle <= r.distance_obstacle
                 /\ scene.num_people = c.num_people
                 /\ scene.num_cars = c.num_cars ]_vars

\* NeuralNet has sent a Scene with the radar's distance, the radar being
\* nearer and its error margin not zero
C13_Witness ==
    /\ obs.act = "NeuralNet"
    /\ obs.wrote
    /\ scan_ch[1].error_margin = 9
    /\ scan_ch[1].distance_obstacle < image_ch[1].distance_obstacle
    /\ scene_ch[1].distance_obstacle = scan_ch[1].distance_obstacle
    /\ scene_ch[1].num_people = 4

\* the number of invocations a visit to a scenario is to last
VisitLength(scenario) ==
    CASE scenario = "highway" -> 40
      [] scenario = "city" -> 30
      [] scenario = "suburban" -> 25
      [] scenario = "emergency_test" -> 15

\* the scenario that is to follow
Successor(scenario) ==
    CASE scenario = "highway" -> "city"
      [] scenario = "city" -> "suburban"
      [] scenario = "suburban" -> "emergency_test"
      [] scenario = "emergency_test" -> "highway"

\* C14: the scenario in effect changes only along highway -> city ->
\* suburban -> emergency_test -> highway; every visit, the first highway
\* visit after construction included, lasts exactly its number of
\* invocations (40, 30, 25, 15); the timer is 0 after each switch.
C14_ScenarioCycle ==
    [][ /\ cam_visit' <= VisitLength(camera'.current_scenario)
        /\ camera'.current_scenario # camera.current_scenario
             => /\ camera'.current_scenario = Successor(camera.current_scenario)
                /\ cam_visit = VisitLength(camera.current_scenario)
                /\ camera'.scenario_timer = 0 ]_vars

\* v lies in the clamp range of walk w
InRange(v, w) == w.lo <= v /\ v <= w.hi

\* C15: every CameraImage sent has num_people, num_cars and
\* distance_obstacle inside the clamp range of the scenario in effect at that
\* invocation, the first invocation after a switch included; every RadarScan
\* sent has distance_obstacle in [1.5, 30].
C15_ReadingsInRange ==
    [][ /\ (obs'.act = "Camera" /\ obs'.wrote)
             => LET w == Walks(camera'.current_scenario)
                    image == image_ch'[1]
                IN  /\ InRange(image.num_people, w.people)
                    /\ InRange(image.num_cars, w.cars)
                    /\ InRange(camera'.distance_obstacle, w.distance)
                    /\ Tenths(w.distance.lo) <= image.distance_obstacle
                    /\ image.distance_obstacle <= Tenths(w.distance.hi)
        /\ (obs'.act = "Radar" /\ obs'.wrote)
             => /\ 15 <= scan_ch'[1].distance_obstacle
                /\ scan_ch'[1].distance_obstacle <= 300 ]_vars

\* the first reading of a city visit, with the fewest people and cars and the
\* shortest distance of the city range: values carried over from the highway
\* have been clamped
C15_Witness ==
    /\ obs.act = "Camera"
    /\ obs.wrote
    /\ camera.current_scenario = "city"
    /\ cam_visit = 1
    /\ image_ch[1] = [num_people |-> 3, num_cars |-> 4, distance_obstacle |-> 30]

----------------------------------------------------------------------------
(* Properties of the vehicle dynamics *)

Abs(x) == IF x >= 0 THEN x ELSE -x

\* C16: over arbiter steps without a mode transition (target_speed
\* unchanged) the distance between current_speed and target_speed never
\* grows and shrinks by the factor 0.9 per step (to the thousandth that the
\* speeds are kept in), current_speed does not pass target_speed, and
\* current_speed is within [5, 120] in every reachable state.
C16_SpeedConverges ==
    /\ [](5 * SCALE_FACTOR <= current_speed /\ current_speed <= 120 * SCALE_FACTOR)
    /\ [][ (/\ obs'.act = "CarModeCalculator"
            /\ obs'.read
            /\ current_mode' = current_mode
            /\ target_speed' = target_speed)
             => LET d == Abs(target_speed - current_speed)
                    e == Abs(target_speed - current_speed')
                IN  /\ e <= d
                    /\ 9 * d <= 10 * e
                    /\ 10 * e <= 9 * d + 9
                    /\ (current_speed <= target_speed
                          => current_speed' <= target_speed)
                    /\ (current_speed >= target_speed
                          => current_speed' >= target_speed) ]_vars

\* emergency entered at 50 km/h (target 15 km/h) and two more steps taken:
\* 50 -> 46.5 -> 43.35 -> 40.515
C16_Witness ==
    /\ current_mode = "emergency"
    /\ target_speed = 15 * SCALE_FACTOR
    /\ current_speed = 40515
    /\ arbiter_steps = 3

----------------------------------------------------------------------------
(* Properties of the mode graph *)

\* the mode after a step taken at instant t on scene
ModeAfter(scene, t) ==
    IF ShouldChangeMode(PotentialNewMode(scene), current_mode,
                        last_mode_change_time, t)
    THEN PotentialNewMode(scene) ELSE current_mode

\* mode m is one step away, now or once the cooldown has run out
WithinReach(m) ==
    \E scene \in ArbiterScenes, wait \in {0, mode_change_cooldown} :
        ModeAfter(scene, now + wait) = m

\* C17: the arbiter starts in manual and has no terminal or absorbing mode:
\* in every reachable state the arbiter can take a step (it has not been
\* ended) and each of the three modes can still be reached by some Scenes
\* and elapsed time.
C17_NoTerminalMode ==
    /\ arbiter_steps = 0 => current_mode = "manual"
    /\ Alive("CarModeCalculator")
    /\ \A m \in Modes : WithinReach(m)

----------------------------------------------------------------------------
(* Properties of the random walks *)

\* C18: a walk declared with change probability 1.0 (the radar distance, the
\* camera distance in city and in emergency_test) takes its perturbation
\* branch for every value the random source can return: whatever the first
\* draw, the result is the previous value plus the delta sampled (here the
\* largest step down).
C18_CertainWalkAlwaysSteps ==
    /\ \A r1 \in ChanceDraws :
           GetScan(radar_distance, r1, 0) = GetScan(radar_distance, 0, 0)
    /\ \A scenario \in {"city", "emergency_test"}, r1 \in ChanceDraws :
           LET w == Walks(scenario).distance
           IN  RandomWalkFloat(camera.distance_obstacle, w.p, w.delta, r1, 0)
                   = camera.distance_obstacle - w.delta

----------------------------------------------------------------------------
(* The mode rule of the module documentation *)

\* C19: the candidate of a step that reads a Scene is emergency iff the
\* obstacle is closer than 5 m; else manual iff the obstacle is at 5-10 m or
\* more than 2 people or more than 3 cars are detected; autonomous only with
\* the obstacle beyond 10 m, at most 2 people and at most 3 cars.
C19_DocumentedRule ==
    ArbiterRead =>
        LET scene == scene_ch[1]
            d == scene.distance_obstacle
        IN  /\ (obs.cand = "emergency") <=> (d < 50)
            /\ (obs.cand = "manual") <=>
                   (d >= 50 /\ (d <= 100 \/ scene.num_people > 2
                                \/ scene.num_cars > 3))
            /\ (obs.cand = "autonomous") <=>
                   (d > 100 /\ scene.num_people <= 2 /\ scene.num_cars <= 3)

----------------------------------------------------------------------------
(* Properties of the persistency client *)

\* a key that put, get and delete all accept
ValidKey(key) ==
    key # <<>> /\ Len(key) <= key_length_limit /\ ~Contains(key, SpecialChars)

\* the last call was a get of a valid key whose last put succeeded, with no
\* put or delete of the key handled by the service since
GetAfterPut ==
    reply.op = "get" /\ ValidKey(reply.key) /\ put_log[reply.key] # None

\* C20 as stated: after put(k, v) succeeds for a valid key k, every later
\* get(k), until k is put again or deleted, returns Ok with exactly v.
C20_RoundTrip ==
    GetAfterPut => reply.result = "Ok" /\ reply.value = put_log[reply.key][1]

\* C20: after put(k, v) succeeds for a valid key k, every later get(k),
\* until k is put again or deleted, returns Ok with exactly the string v
\* unless the call itself fails (transport or gRPC error); it never returns
\* NotFound, a conversion error or another string, and the store holds v
\* under k as a string.
C20_RoundTripWhenAnswered ==
    GetAfterPut =>
        /\ reply.result \in {"Ok", "Grpc"}
        /\ reply.result = "Ok" => reply.value = put_log[reply.key][1]
        /\ kvs[reply.key] = Some([type |-> "String", val |-> put_log[reply.key][1]])

\* a get has returned the empty string that the last put stored under "ab"
C20_Witness ==
    /\ GetAfterPut
    /\ reply.key = <<"a", "b">>
    /\ reply.result = "Ok"
    /\ reply.value = ""
    /\ put_log[reply.key] = Some("")

\* the last call was a get of a key whose last delete succeeded, with no
\* write of the key handled by the service since
GetAfterDelete ==
    reply.op = "get" /\ reply.key \in StoreKeys /\ del_log[reply.key]

\* C21: after delete(k) returns Ok, every later get(k), until the service
\* stores k again, returns an error and no value: NotFound, or the error of
\* a call that failed, or InvalidArgs for the empty key; the store does not
\* hold k.
C21_GetAfterDeleteFails ==
    /\ \A k \in StoreKeys : del_log[k] => kvs[k] = None
    /\ GetAfterDelete =>
          /\ reply.result \in {"NotFound", "Grpc", "InvalidArgs"}
          /\ reply.value = ""
          /\ ValidKey(reply.key) => reply.result \in {"NotFound", "Grpc"}

\* a get of "a" has returned NotFound after the delete of "a" succeeded
C21_Witness ==
    /\ GetAfterDelete
    /\ reply.key = <<"a">>
    /\ reply.result = "NotFound"

\* the step is a get of a valid key that the store does not hold
AbsentGet ==
    reply'.op = "get" /\ ValidKey(reply'.key) /\ kvs[reply'.key] = None

\* C22 as stated: get of a valid key that is not in the store returns
\* NotFound and leaves the store unchanged.
C22_AbsentKeyNotFound ==
    [][AbsentGet => reply'.result = "NotFound" /\ kvs' = kvs]_vars

\* C22: get of a valid key that is not in the store returns an error,
\* NotFound or, when the call itself fails, the error of the call; it never
\* returns a value, the empty string included, and leaves the store unchanged.
C22_AbsentKeyError ==
    [][AbsentGet => /\ reply'.result \in {"NotFound", "Grpc"}
                    /\ reply'.value = ""
                    /\ kvs' = kvs]_vars

\* a get of "ab", never stored, has returned NotFound beside a stored "a"
C22_Witness ==
    /\ reply.op = "get"
    /\ reply.key = <<"a", "b">>
    /\ reply.result = "NotFound"
    /\ kvs[<<"a", "b">>] = None
    /\ kvs[<<"a">>] # None

\* the last call was get_all_with_prefix and returned a list
Listed == reply.op = "get_all_with_prefix" /\ reply.result = "Ok"

\* the store holds a string under k
StringValued(k) == kvs[k] # None /\ kvs[k][1].type = "String"

\* C23: the list get_all_with_prefix(p) returns holds only stored keys that
\* start with p, one pair per key, every string-valued stored key that
\* starts with p with its current value, and no key that does not start
\* with p.
C23_PrefixListing ==
    Listed =>
        /\ \A kv \in reply.value :
              /\ StartsWith(kv.key, reply.key)
              /\ kv.key \in StoreKeys /\ kvs[kv.key] # None
              /\ StringValued(kv.key) => kv.value = kvs[kv.key][1].val
        /\ \A kv1, kv2 \in reply.value : kv1.key = kv2.key => kv1 = kv2
        /\ \A k \in StoreKeys :
              (StringValued(k) /\ StartsWith(k, reply.key)) =>
                  [key |-> k, value |-> kvs[k][1].val] \in reply.value
        /\ \A k \in StoreKeys :
              ~StartsWith(k, reply.key) => \A kv \in reply.value : kv.key # k

\* the listing of prefix "a" has returned "a" with its value "v" and neither
\* the stored empty key nor the array stored under "ab"
C23_Witness ==
    /\ Listed
    /\ reply.key = <<"a">>
    /\ reply.value = { [key |-> <<"a">>, value |-> "v"] }
    /\ kvs[<<>>] # None
    /\ kvs[<<"a", "b">>] # None

\* the step is a delete_all_with_prefix that returned Ok
DeletedAll == reply'.op = "delete_all_with_prefix" /\ reply'.result = "Ok"

\* the keys outside the prefix keep what they held
FrameOfDeleteAll ==
    DeletedAll =>
        \A k \in StoreKeys : ~StartsWith(k, reply'.key) => kvs'[k] = kvs[k]

\* the last call was get_all_with_prefix(p), delete_all_with_prefix(p) having
\* returned Ok with no write handled by the service since
ListedAfterDeleteAll ==
    reply.op = "get_all_with_prefix" /\ reply.key \in cleared

\* C24 as stated: after delete_all_with_prefix(p) returns Ok,
\* get_all_with_prefix(p) returns an empty list, and the keys that do not
\* start with p keep their values.
C24_DeleteAllThenEmptyList ==
    /\ [](ListedAfterDeleteAll => reply.result = "Ok" /\ reply.value = {})
    /\ [][FrameOfDeleteAll]_vars

\* C24: after delete_all_with_prefix(p) returns Ok, get_all_with_prefix(p)
\* returns either an empty list or, when the call or the service's key
\* listing fails, an error, never a pair; no string is stored under a key
\* that starts with p; and the keys that do not start with p keep their
\* values.
C24_DeleteAllThenNoPair ==
    /\ [](ListedAfterDeleteAll =>
            /\ reply.result \in {"Ok", "Grpc", "InvalidArgs"}
            /\ reply.value = {})
    /\ [](\A p \in cleared : \A k \in StoreKeys :
            StartsWith(k, p) => ~StringValued(k))
    /\ [][FrameOfDeleteAll]_vars

\* after delete_all_with_prefix("a") returned Ok the listing of "a" has
\* returned the empty list, the empty key still stored
C24_Witness ==
    /\ ListedAfterDeleteAll
    /\ reply.key = <<"a">>
    /\ reply.result = "Ok"
    /\ reply.value = {}
    /\ kvs[<<>>] # None

\* C25: put, get and delete each reject an empty key, a key containing one
\* of < > ? { } and a key longer than 1024 characters by returning an error,
\* and the rejected call leaves the store unchanged.
C25_InvalidKeyRejected ==
    [][(reply'.op \in {"put", "get", "delete"} /\ ~ValidKey(reply'.key)) =>
          (reply'.result # "Ok" /\ kvs' = kvs)]_vars

----------------------------------------------------------------------------
(* Properties of the mode transitions and of the vehicle state *)

\* the step is a CarModeCalculator step that read a Scene
ArbiterReadStep ==
    /\ arbiter_steps' = arbiter_steps + 1
    /\ obs'.act = "CarModeCalculator"
    /\ obs'.read

\* the guard as the specification words it, on the state before the step
Allowed(candidate) ==
    /\ candidate # current_mode
    /\ \/ candidate = "emergency"
       \/ last_mode_change_time = None
       \/ now - last_mode_change_time[1] >= mode_change_cooldown

\* C26: a CarModeCalculator step that reads a Scene changes current_mode,
\* to the candidate, iff the candidate differs from current_mode and is
\* emergency, or no change is recorded yet, or the cooldown has elapsed since
\* the last change; such a step records the instant of the change; and
\* last_mode_change_time, target_speed and brake_force change in no step
\* that leaves current_mode unchanged.
C26_GuardedModeChange ==
    /\ [][ArbiterReadStep =>
            /\ (current_mode' # current_mode) <=> Allowed(obs'.cand)
            /\ Allowed(obs'.cand) =>
                  /\ current_mode' = obs'.cand
                  /\ last_mode_change_time' = Some(now)]_vars
    /\ [][current_mode' = current_mode =>
            UNCHANGED <<last_mode_change_time, target_speed, brake_force>>]_vars

\* a step has read a manual candidate 14 s after the change to autonomous:
\* blocked by the cooldown, the mode, the instant of the change, the target
\* speed and the brake force of the autonomous mode are kept
C26_Witness ==
    /\ obs.act = "CarModeCalculator"
    /\ obs.read
    /\ obs.cand = "manual"
    /\ current_mode = "autonomous"
    /\ last_mode_change_time = Some(0)
    /\ now = 14
    /\ arbiter_steps = 2
    /\ target_speed = 65 * SCALE_FACTOR

\* C27: on every transition into emergency target_speed becomes
\* max(0.3 x current_speed before the step, 10) (to the thousandth that the
\* speeds are kept in) and brake_force becomes 80; in every reachable state
\* with current_mode = emergency, brake_force = 80 and target_speed >= 10.
C27_EmergencyBehavior ==
    /\ [](current_mode = "emergency" =>
            /\ brake_force = 80 * SCALE_FACTOR
            /\ target_speed >= 10 * SCALE_FACTOR)
    /\ [][(current_mode # "emergency" /\ current_mode' = "emergency") =>
            /\ brake_force' = 80 * SCALE_FACTOR
            /\ IF 3 * current_speed <= 100 * SCALE_FACTOR
               THEN target_speed' = 10 * SCALE_FACTOR
               ELSE /\ 10 * target_speed' <= 3 * current_speed
                    /\ 3 * current_speed < 10 * target_speed' + 10]_vars

\* emergency entered a second time, below 33.3 km/h: the target is the
\* floor of 10 km/h
C27_Witness ==
    /\ current_mode = "emergency"
    /\ target_speed = 10 * SCALE_FACTOR
    /\ brake_force = 80 * SCALE_FACTOR
    /\ 3 * current_speed < 100 * SCALE_FACTOR
    /\ Len(mode_changed_at) = 2

\* C28: in every CarModeCalculator step that reads a Scene, with or without
\* a mode transition, current_speed moves by a tenth of the difference
\* between the target speed in force after the step's transition and the
\* speed before (to the thousandth that the speeds are kept in), so it is
\* not set to the target; steering_angle moves by at most 2.0 and stays
\* within [-10, 10]; no other step changes either field.
C28_GradualDynamics ==
    /\ [](/\ -10 * SCALE_FACTOR <= steering_angle
          /\ steering_angle <= 10 * SCALE_FACTOR)
    /\ [][ArbiterReadStep =>
            LET d == target_speed' - current_speed
                m == current_speed' - current_speed
            IN  /\ m * d >= 0
                /\ Abs(10 * m) <= Abs(d)
                /\ Abs(d) <= Abs(10 * m) + 9
                /\ Abs(d) >= 10 => current_speed' # target_speed'
                /\ Abs(steering_angle' - steering_angle) <= 2 * SCALE_FACTOR]_vars
    /\ [][~ArbiterReadStep =>
            UNCHANGED <<current_speed, steering_angle>>]_vars

\* the steering has walked down to its bound of -10 in a step that held it
\* there, after the mode went to emergency at 50 km/h
C28_Witness ==
    /\ steering_angle = -10 * SCALE_FACTOR
    /\ arbiter_steps = 6
    /\ current_mode = "emergency"
    /\ target_speed = 15 * SCALE_FACTOR
    /\ current_speed < 50 * SCALE_FACTOR

----------------------------------------------------------------------------
(* Properties of shutdown *)

ShutdownNames ==
    [m \in Modes |->
        CASE m = "autonomous" -> "AutonomousModePublisher shutdown"
          [] m = "manual" -> "ManualModePublisher shutdown"
          [] m = "emergency" -> "EmergencyModePublisher shutdown"]

\* C29: shutdown of the forwarder and of each mode publisher leaves its
\* writer and its participant absent; while the writer of the forwarder is
\* absent no step writes on DDS topic CarData or changes
\* last_published_mode; while the writer of a mode publisher is absent no
\* step writes on its DDS topic.
C29_ShutdownReleases ==
    /\ [][obs'.act = "CarDataPublisher shutdown" =>
            ~fwd_writer' /\ ~fwd_participant']_vars
    /\ [][\A m \in Modes :
            obs'.act = ShutdownNames[m] =>
                ~pub_writer'[m] /\ ~pub_participant'[m]]_vars
    /\ [][~fwd_writer =>
            UNCHANGED <<dds_car_data, dds_last_result, last_published_mode>>]_vars
    /\ [][\A m \in Modes :
            ~pub_writer[m] => dds_mode_data'[m] = dds_mode_data[m]]_vars

\* the forwarder, shut down after it had published a mode, has stepped on a
\* CarData with another mode: nothing was written and last_published_mode
\* is the mode published before the shutdown
C29_Witness ==
    /\ ~fwd_writer
    /\ ~fwd_participant
    /\ obs.act = "CarDataPublisher"
    /\ obs.read
    /\ ~obs.wrote
    /\ Len(dds_car_data) = 1
    /\ last_published_mode = Some(dds_car_data[1])
    /\ obs.cand # dds_car_data[1]

----------------------------------------------------------------------------
(* Properties of get_client *)

\* the connection attempts of the call in progress or last returned
Attempts == Len(init_log.outcomes)

\* the initialisation of the last call has returned
InitReturned == init_call.pc = "returned" /\ Attempts > 0

\* C30: get_client makes at most 10 connection attempts and returns: it
\* sleeps 1000 ms between two attempts and not after the last one, returns
\* Ok at the first attempt that connects, with the client in the cell, and
\* after 10 failures returns the error of the 10th attempt, with the cell
\* left empty; a call that finds the cell empty starts at attempt 0.
C30_BoundedRetries ==
    /\ [](/\ Attempts <= MAX_RETRIES
          /\ init_call.pc = "sleep" => Attempts < MAX_RETRIES
          /\ init_call.pc \in {"connect", "sleep"} =>
                /\ ~CLIENT
                /\ init_call.attempt = Attempts
                /\ \A i \in 1..Attempts : init_log.outcomes[i] # "Ok"
          /\ init_call.pc = "connect" =>
                init_log.slept = RETRY_DELAY_MS * Attempts
          /\ InitReturned =>
                /\ init_log.slept = RETRY_DELAY_MS * (Attempts - 1)
                /\ \A i \in 1..(Attempts - 1) : init_log.outcomes[i] # "Ok"
                /\ init_log.result = init_log.outcomes[Attempts]
                /\ init_log.result = "Ok" <=> CLIENT
                /\ init_log.result # "Ok" => Attempts = MAX_RETRIES)
    /\ [][(init_log'.calls = init_log.calls + 1 /\ ~CLIENT) =>
            /\ init_call'.pc = "connect"
            /\ init_call'.attempt = 0
            /\ init_log'.outcomes = <<>>
            /\ init_log'.slept = 0]_vars
    /\ (init_call.pc \in {"connect", "sleep"} ~> init_call.pc = "returned")

\* the second call, the first having left the cell empty, has failed in its
\* turn after 10 attempts of its own and 9 sleeps, with the error of the
\* 10th attempt
C30_Witness ==
    /\ init_log.calls = 2
    /\ InitReturned
    /\ Attempts = 10
    /\ init_log.outcomes[9] = "refused"
    /\ init_log.result = "timeout"
    /\ init_log.slept = 9000
    /\ ~CLIENT

----------------------------------------------------------------------------
(* Properties of the feo_demo Camera *)

\* C31: every invocation of the feo_demo get_image leaves num_cars within 2
\* of the num_people it has just assigned, at one of the values
\* max(0, num_people + d) with d in -2..2, whatever num_cars was before.
C31_CarsWalkFromPeople ==
    /\ [](demo_images > 0 =>
            Abs(demo_camera.num_cars - demo_camera.num_people) <= 2)
    /\ [][demo_images' = demo_images + 1 =>
            demo_camera'.num_cars \in
                { Max(0, demo_camera'.num_people + d) : d \in -2..2 }]_vars

\* the first image: from 4 people and 10 cars to 3 people and 1 car, which no
\* walk of at most 2 from 10 cars gives
C31_Witness ==
    /\ demo_images = 1
    /\ demo_image_ch = Some(demo_camera)
    /\ demo_camera.num_people = 3
    /\ demo_camera.num_cars = 1

----------------------------------------------------------------------------
(* Properties of the cooldown *)

\* C32: current_mode leaves emergency at no step taken less than 15 s after
\* it became emergency, whatever Scene is read; a step taken less than 15 s
\* after any change of current_mode changes it only into emergency; and a
\* change into emergency makes its own instant the one the cooldown is
\* counted from.
C32_EmergencyHeldForCooldown ==
    /\ [](current_mode = "emergency" =>
            mode_changed_at # <<>> /\ last_mode_change_time # None)
    /\ [][(current_mode = "emergency" /\ current_mode' # "emergency") =>
            now - LastChange >= mode_change_cooldown]_vars
    /\ [][(current_mode' # current_mode /\ mode_changed_at # <<>>
           /\ now - LastChange < mode_change_cooldown) =>
            current_mode' = "emergency"]_vars
    /\ [][(current_mode' = "emergency" /\ current_mode # "emergency") =>
            /\ last_mode_change_time' = Some(now)
            /\ mode_changed_at'[Len(mode_changed_at')] = now]_vars

\* autonomous since 0 s, emergency since 14 s: at 16 s a step has read an
\* autonomous candidate and the mode is still emergency, the cooldown being
\* counted from 14 s
C32_Witness ==
    /\ ArbiterRead
    /\ obs.cand = "autonomous"
    /\ current_mode = "emergency"
    /\ mode_changed_at = <<0, 14>>
    /\ last_mode_change_time = Some(14)
    /\ now = 16

\* C33: of any three consecutive changes of current_mode the third comes at
\* least 15 s after the first, so a window shorter than 15 s holds at most
\* two changes; and two changes less than 15 s apart are a change into
\* manual or autonomous followed by a change into emergency.
C33_AtMostTwoChangesPerWindow ==
    /\ [](Len(mode_changed_at) = 2 => mode_changed_at[1] <= mode_changed_at[2])
    /\ [][(current_mode' # current_mode /\ Len(mode_changed_at) = 2) =>
            now - mode_changed_at[1] >= mode_change_cooldown]_vars
    /\ [][(current_mode' # current_mode /\ mode_changed_at # <<>>
           /\ now - LastChange < mode_change_cooldown) =>
            /\ current_mode # "emergency"
            /\ current_mode' = "emergency"]_vars

\* two changes in the window from 0 s to 14 s, into autonomous at 0 s and
\* into emergency at 1 s; the manual candidate read at 14 s is refused
C33_Witness ==
    /\ ArbiterRead
    /\ obs.cand = "manual"
    /\ current_mode = "emergency"
    /\ mode_changed_at = <<0, 1>>
    /\ now = 14

----------------------------------------------------------------------------
(* Properties of the pipeline *)

\* CarDataPublisher has stepped after the last step of CarModeCalculator
ForwarderCaughtUp ==
    "CarDataPublisher" \in stepped \/ "CarModeCalculator" \notin stepped

\* the last mode written on the DDS topic CarData is emergency
EmergencyOnBus ==
    dds_car_data # <<>> /\ dds_car_data[Len(dds_car_data)] = "emergency"

\* the modes written on the DDS topic CarData are the modes CarModeCalculator
\* sent on car-data, a run of equal consecutive modes counted once
ForwardedAsSent == ForwarderCaughtUp => dds_car_data = car_data_runs

\* C34: in the configured order of steps, the modes written on the DDS topic
\* CarData are the modes CarModeCalculator sent on car-data with equal
\* neighbours counted once; and every entry of current_mode into emergency
\* reaches the DDS topic: as long as it has not, CarModeCalculator and
\* CarDataPublisher are running to bring it there.
C34_BusFollowsArbiter ==
    /\ ForwardedAsSent
    /\ (current_mode = "emergency" /\ ~EmergencyOnBus) =>
          (Alive("CarModeCalculator") /\ Alive("CarDataPublisher"))

\* the three mode publishers
ModePublishers ==
    { "AutonomousModePublisher", "ManualModePublisher",
      "EmergencyModePublisher" }

\* the three publishers have stepped in this cycle, each has read the
\* CarData mode and a Scene
AllReadCarData(mode) ==
    /\ ModePublishers \subseteq stepped
    /\ \A m \in Modes : pub_last[m].car_data = Some(mode) /\ pub_last[m].scene

\* C35: the driving_mode on car-data is autonomous, manual or emergency; and
\* in a cycle in which the three mode publishers have read the same CarData,
\* with a Scene available, the publisher of that driving_mode has written a
\* record on its DDS topic and the two others have not.
C35_OnePublisherPerCycle ==
    /\ car_data_ch # None => car_data_ch[1].driving_mode \in Modes
    /\ car_data_runs \in Seq(Modes)
    /\ \A mode \in Modes \cup {""} :
          AllReadCarData(mode) =>
              { m \in Modes : pub_last[m].wrote } = {mode}

\* the second cycle is over: the three publishers have read emergency, and
\* the emergency publisher has written its second record, the others none
C35_Witness ==
    /\ stepped = Activities
    /\ AllReadCarData("emergency")
    /\ dds_mode_data = [m \in Modes |-> IF m = "emergency" THEN 2 ELSE 0]
    /\ pub_last["emergency"].wrote

\* the last step was a step of the publisher of mode m
PublisherStepped(m) == obs'.act = PublisherName(m)

\* C36: whenever a CarData is on car-data a Scene is on inferred-scene, so a
\* publisher deciding on the CarData has a Scene to publish from; a
\* publisher decides on the Scene only while CarModeCalculator has sent no
\* CarData; and once it has, every publisher decides on the CarData and is
\* active iff its mode is the mode last sent.
C36_SceneBehindCarData ==
    /\ [](car_data_ch # None => scene_ch # None)
    /\ [](car_data_runs # <<>> <=> car_data_ch # None)
    /\ [](\A m \in Modes :
            pub_last[m].path = "car_data" => pub_last[m].scene)
    /\ [][\A m \in Modes : PublisherStepped(m) =>
            /\ pub_last'[m].path = "scene" => car_data_runs = <<>>
            /\ car_data_runs # <<>> =>
                  /\ pub_last'[m].path = "car_data"
                  /\ pub_last'[m].active <=>
                        m = car_data_runs[Len(car_data_runs)]]_vars

\* the CarData says autonomous while the rule on the Scene gives another
\* mode: the autonomous publisher has decided on the CarData and written its
\* record from that Scene
C36_Witness ==
    /\ obs.act = "AutonomousModePublisher"
    /\ pub_last["autonomous"].path = "car_data"
    /\ pub_last["autonomous"].active
    /\ pub_last["autonomous"].wrote
    /\ scene_ch # None
    /\ RuleMode(scene_ch[1]) # "autonomous"

----------------------------------------------------------------------------
(* Properties of a restart *)

\* C37: the step of CarDataPublisher that follows its startup and reads a
\* CarData writes the mode it read on the DDS topic CarData, after a
\* shutdown as well, whether or not that mode is the one last written
\* before the shutdown.
C37_RepublishAfterRestart ==
    [][(/\ obs.act = "CarDataPublisher startup"
        /\ obs'.act = "CarDataPublisher"
        /\ car_data_ch # None) =>
            dds_car_data' = Append(dds_car_data, car_data_ch[1].driving_mode)]_vars

----------------------------------------------------------------------------
(* Properties of the activity configuration *)

\* the activities a depends on through at most n dependency entries
RECURSIVE DependsWithin(_, _)
DependsWithin(a, n) ==
    IF n = 0 THEN {}
    ELSE ActivityDependencies(a) \cup
         UNION { DependsWithin(d, n - 1) : d \in ActivityDependencies(a) }

\* the activities a depends on, directly or transitively
DependsOn(a) == DependsWithin(a, Cardinality(ActivityIds))

\* how many entries of the worker vectors name activity a
Assigned(a) ==
    Cardinality({ <<w, i>> \in Workers \X (1..Cardinality(ActivityIds)) :
                    i <= Len(AgentAssignments[w]) /\ AgentAssignments[w][i] = a })

\* the activity that starts in this step, if one does
Starting(a) ==
    \E w \in Workers : sched_running[w] = None /\ sched_running'[w] = Some(a)

\* C38: every topic has exactly one Outgoing activity; every Incoming
\* activity of a topic depends, directly or transitively, on that activity;
\* no activity depends on itself; every activity with a dependency entry is
\* named once in the worker vectors; so in every cycle an activity starts
\* only after the writers of the topics it reads have run.
C38_ConfigurationConsistent ==
    /\ [](/\ \A t \in TopicDependencies :
                /\ Len(t.outgoing) = 1
                /\ \A r \in Range(t.incoming) : t.outgoing[1] \in DependsOn(r)
          /\ \A a \in ActivityIds : a \notin DependsOn(a) /\ Assigned(a) = 1
          /\ \A a \in ActivityIds : ActivityDependencies(a) \subseteq ActivityIds)
    /\ [][\A a \in ActivityIds : Starting(a) =>
            \A t \in TopicDependencies :
                a \in Range(t.incoming) => t.outgoing[1] \in sched_done]_vars

\* a cycle in which every configured activity has run and every worker is
\* idle: no dependency has kept an activity waiting for ever
C38_Witness ==
    /\ sched_done = ActivityIds
    /\ \A w \in Workers : sched_running[w] = None

====
